---- MODULE Spec2Model ----
(***************************************************************************)
(* Augent: the content-addressed transcription memory (augent/memory.py)   *)
(* and the get-or-compute callers built on it (augent/core.py,             *)
(* augent/embeddings.py, augent/speakers.py).                              *)
(*                                                                         *)
(* Strings that the code takes apart (paths, titles, cache keys, digests)  *)
(* are sequences of one-character strings.  An optional value is a         *)
(* sequence of length 0 (None) or 1.                                       *)
(***************************************************************************)
EXTENDS Integers, Sequences, FiniteSets, TLC

\* ------------------------------------------------------------------------
\* Bounds of the model
\* ------------------------------------------------------------------------

\* number of API calls made in one behaviour
MaxOps == 3

\* calls started by the concurrent callers
MaxCalls == 3

\* ------------------------------------------------------------------------
\* Values
\* ------------------------------------------------------------------------

None == <<>>

Some(v) == <<v>>

\* audio files the callers name: two files with the same basename in
\* different directories, and one whose title needs sanitising
PathXA == <<"x", "/", "a", ".", "m">>

PathYA == <<"y", "/", "a", ".", "m">>

PathXB == <<"x", "/", "b", "!", ".", "m">>

Paths == {PathXA, PathYA, PathXB}

\* contents an audio file can have (sequences of byte values)
FileContents == {<<1>>, <<2>>}

\* model_size values
Variants == {<<"t">>, <<"s">>}

\* characters for which str.isalnum() holds, among those the model uses
AlnumChars == {"a", "b", "m", "x", "y", "t", "s"}

Seg(s, e, t) == [start |-> s, end |-> e, text |-> t]

Word(w, s, e) == [word |-> w, start |-> s, end |-> e]

\* what the transcription model can produce for an audio file: the
\* segments (each with its words), the detected language and the duration
WhisperA == [language |-> "en", duration |-> 65,
             segments |-> << [start |-> 0, end |-> 1, text |-> " hi",
                              words |-> <<Word(" hi", 0, 1)>>],
                             [start |-> 61, end |-> 65, text |-> " yo",
                              words |-> <<Word(" yo", 61, 65)>>] >>]

WhisperB == [language |-> "fr", duration |-> 7,
             segments |-> << [start |-> 0, end |-> 2, text |-> " a",
                              words |-> <<Word(" a", 0, 2)>>],
                             [start |-> 2, end |-> 4, text |-> " b",
                              words |-> <<Word(" b", 2, 4)>>],
                             [start |-> 4, end |-> 7, text |-> " c",
                              words |-> <<>>] >>]

WhisperOutputs == {WhisperA, WhisperB}

\* a recording with one utterance and a recording without speech
WhisperC == [language |-> "en", duration |-> 9,
             segments |-> << [start |-> 3, end |-> 9, text |-> " hi",
                              words |-> <<Word(" hi", 3, 9)>>] >>]

WhisperD == [language |-> "en", duration |-> 0, segments |-> <<>>]

\* the bytes of these two recordings
ShortContents == {<<3>>, <<4>>}

\* ------------------------------------------------------------------------
\* Sequence helpers
\* ------------------------------------------------------------------------

Min(a, b) == IF a <= b THEN a ELSE b

Max(a, b) == IF a >= b THEN a ELSE b

\* largest index of c in s, 0 when absent (str.rfind + 1)
LastIndexOf(s, c) ==
    LET I == {i \in 1..Len(s) : s[i] = c}
    IN  IF I = {} THEN 0 ELSE CHOOSE i \in I : \A j \in I : j <= i

\* the element of a one-element set; Only({F(x) : x \in {e}}) is F(e) with e
\* evaluated once
Only(S) == CHOOSE x \in S : TRUE

RECURSIVE Flatten(_)
Flatten(ss) == IF ss = <<>> THEN <<>> ELSE Head(ss) \o Flatten(Tail(ss))

\* str.strip() on the texts of the model
Strip(s) ==
    CASE s = " hi" -> "hi"
      [] s = " yo" -> "yo"
      [] s = " a"  -> "a"
      [] s = " b"  -> "b"
      [] s = " c"  -> "c"
      [] s = " "   -> ""
      [] OTHER     -> s

\* " ".join(parts), kept as the sequence of its pieces
RECURSIVE JoinSpace(_)
JoinSpace(parts) ==
    IF parts = <<>> THEN <<>>
    ELSE IF Len(parts) = 1 THEN parts
    ELSE <<Head(parts), " ">> \o JoinSpace(Tail(parts))

\* ------------------------------------------------------------------------
\* ContentHasher: hash_audio_file, _cache_key
\* ------------------------------------------------------------------------

\* f.read(8192)
ChunkSize == 8192

\* len(hashlib.sha256().hexdigest())
HexDigestLen == 64

HexDigits == <<"0", "1", "2", "3", "4", "5", "6", "7",
               "8", "9", "a", "b", "c", "d", "e", "f">>

\* hasher.update(chunk): the hasher's state is the data fed so far
HashUpdate(state, chunk) == state \o chunk

\* hasher.hexdigest(): SHA-256 as a collision-free digest of fixed width
\* (the bytes as hex digits, padded with "0"; byte values are >= 1)
HexDigest(state) ==
    [i \in 1..HexDigestLen |->
        IF i <= Len(state) THEN HexDigits[state[i] + 1] ELSE "0"]

\* for chunk in iter(lambda: f.read(8192), b''): hasher.update(chunk)
RECURSIVE ReadChunks(_, _)
ReadChunks(data, state) ==
    IF data = <<>> THEN state
    ELSE LET n == Min(ChunkSize, Len(data))
         IN  ReadChunks(SubSeq(data, n + 1, Len(data)),
                        HashUpdate(state, SubSeq(data, 1, n)))

\* a key that leaves the variant out
_cache_key_without_variant(audio_hash, model_size) == audio_hash \o <<":">>

_cache_key(audio_hash, model_size) == audio_hash \o <<":">> \o model_size

\* ------------------------------------------------------------------------
\* Titles and note file names
\* ------------------------------------------------------------------------

\* os.path.basename
Basename(p) == SubSeq(p, LastIndexOf(p, "/") + 1, Len(p))

\* os.path.splitext(b)[0]: cut at the last dot unless only dots precede it
SplitextRoot(b) ==
    LET d == LastIndexOf(b, ".")
    IN  IF d > 0 /\ \E i \in 1..(d - 1) : b[i] # "."
        THEN SubSeq(b, 1, d - 1) ELSE b

_title_from_path(p) == SplitextRoot(Basename(p))

\* c if c.isalnum() or c in "-_ " else "_"
SanitizeChar(c) == IF c \in AlnumChars \/ c \in {"-", "_", " "} THEN c ELSE "_"

RECURSIVE StripSpaces(_)
StripSpaces(s) ==
    IF s = <<>> THEN s
    ELSE IF Head(s) = " " THEN StripSpaces(Tail(s))
    ELSE IF s[Len(s)] = " " THEN StripSpaces(SubSeq(s, 1, Len(s) - 1))
    ELSE s

\* re.sub(r'[_\s]+', '_', s)
RECURSIVE CollapseRuns(_)
CollapseRuns(s) ==
    IF s = <<>> THEN <<>>
    ELSE IF Head(s) \in {"_", " "}
         THEN IF Len(s) > 1 /\ s[2] \in {"_", " "}
              THEN CollapseRuns(Tail(s))
              ELSE <<"_">> \o CollapseRuns(Tail(s))
         ELSE <<Head(s)>> \o CollapseRuns(Tail(s))

MaxFilenameLen == 200

_sanitize_filename(title) ==
    LET mapped    == [i \in 1..Len(title) |-> SanitizeChar(title[i])]
        sanitized == CollapseRuns(StripSpaces(mapped))
    IN  IF sanitized = <<>> THEN <<"untitled">>
        ELSE SubSeq(sanitized, 1, Min(MaxFilenameLen, Len(sanitized)))

\* md_dir / f"{sanitized}.md"
MdPathOf(title) == _sanitize_filename(title) \o <<".md">>

MdPaths == {MdPathOf(_title_from_path(p)) : p \in Paths}

\* ------------------------------------------------------------------------
\* JSON text of a list of flat objects, as a sequence of tokens
\* ------------------------------------------------------------------------

\* the numbers of the model and their decimal text
NumStrs == <<"0", "1", "2", "3", "4", "5", "6", "7", "8", "9", "10",
             "61", "65">>

NumVals == <<0, 1, 2, 3, 4, 5, 6, 7, 8, 9, 10, 61, 65>>

NumStrSet == {NumStrs[i] : i \in 1..Len(NumStrs)}

NumStrOf == [n \in {NumVals[i] : i \in 1..Len(NumVals)} |->
                NumStrs[CHOOSE i \in 1..Len(NumVals) : NumVals[i] = n]]

NumValOf == [t \in NumStrSet |->
                NumVals[CHOOSE i \in 1..Len(NumStrs) : NumStrs[i] = t]]

\* repr of a number
NumToStr(n) == NumStrOf[n]

IsNumStr(t) == t \in NumStrSet

\* the number a numeric literal denotes
StrToNum(t) == NumValOf[t]

\* a number is written bare, a string between quotes
JsonValue(v, isNumber) == IF isNumber THEN <<NumToStr(v)>> ELSE <<"\"", v>>

\* one dict, its keys in insertion order; numKeys are the numeric fields
JsonObject(rec, keys, numKeys) ==
    <<"{">>
    \o Flatten([i \in 1..Len(keys) |->
                  <<"\"", keys[i]>> \o JsonValue(rec[keys[i]], keys[i] \in numKeys)])
    \o <<"}">>

\* json.dumps(list): a list of dicts with the given keys, or, when keys is
\* empty, a list of strings
json_dumps(list, keys, numKeys) ==
    <<"[">>
    \o Flatten([i \in 1..Len(list) |->
                  IF keys = <<>> THEN JsonValue(list[i], FALSE)
                  ELSE JsonObject(list[i], keys, numKeys)])
    \o <<"]">>

\* parse the key/value pairs of one object starting at token i;
\* the result is [ok, next, pairs]
RECURSIVE ParsePairs(_, _, _)
ParsePairs(t, i, acc) ==
    IF i > Len(t) THEN [ok |-> FALSE, next |-> i, pairs |-> acc]
    ELSE IF t[i] = "}" THEN [ok |-> TRUE, next |-> i + 1, pairs |-> acc]
    ELSE IF t[i] # "\"" \/ i + 2 > Len(t)
         THEN [ok |-> FALSE, next |-> i, pairs |-> acc]
    ELSE IF t[i + 2] = "\""
         THEN IF i + 3 > Len(t) THEN [ok |-> FALSE, next |-> i, pairs |-> acc]
              ELSE ParsePairs(t, i + 4, Append(acc, [k |-> t[i + 1], v |-> Some(t[i + 3]), n |-> None]))
    ELSE IF IsNumStr(t[i + 2])
         THEN ParsePairs(t, i + 3, Append(acc, [k |-> t[i + 1], v |-> None, n |-> Some(StrToNum(t[i + 2]))]))
    ELSE [ok |-> FALSE, next |-> i, pairs |-> acc]

\* the dict a list of parsed pairs denotes (a later key wins)
DictOf(pairs) ==
    [k \in {pairs[i].k : i \in 1..Len(pairs)} |->
        LET j == CHOOSE j \in 1..Len(pairs) :
                    /\ pairs[j].k = k
                    /\ \A m \in 1..Len(pairs) : pairs[m].k = k => m <= j
        IN  IF pairs[j].n # None THEN pairs[j].n[1] ELSE pairs[j].v[1]]

RECURSIVE ParseObjects(_, _, _)
ParseObjects(t, i, acc) ==
    IF i > Len(t) THEN [ok |-> FALSE, list |-> acc]
    ELSE IF t[i] = "]" THEN [ok |-> i = Len(t), list |-> acc]
    ELSE IF t[i] = "\"" /\ i + 1 <= Len(t)
         THEN ParseObjects(t, i + 2, Append(acc, t[i + 1]))
    ELSE IF t[i] # "{" THEN [ok |-> FALSE, list |-> acc]
    ELSE Only({ IF ~o.ok THEN [ok |-> FALSE, list |-> acc]
                ELSE ParseObjects(t, o.next, Append(acc, DictOf(o.pairs)))
                : o \in {ParsePairs(t, i + 1, <<>>)} })

\* json.loads(text): [ok |-> FALSE] stands for json.JSONDecodeError
json_loads(text) ==
    Only({ IF t = <<>> \/ t[1] # "[" THEN [ok |-> FALSE, list |-> <<>>]
           ELSE ParseObjects(t, 2, <<>>)
           : t \in {text} })

SegmentKeys == <<"start", "end", "text">>

WordKeys == <<"word", "start", "end">>

TimeKeys == {"start", "end"}

TurnKeys == <<"speaker", "start", "end">>

\* ------------------------------------------------------------------------
\* State
\* ------------------------------------------------------------------------

VARIABLES
    files,           \* the audio files on disk: path -> bytes
    exists,          \* the paths at which there is a file
    stream,          \* the generator of transcribe_audio_streaming: where
                     \* its body stands, with its arguments
    transcriptions,  \* rows of table transcriptions
    embeddings,      \* rows of table embeddings
    diarization,     \* rows of table diarization
    notes,           \* md_dir: note path -> None | Some(content)
    now,             \* time.time(), one tick per API call
    last,            \* the API call that ran last and what it returned
    puts,            \* history: (bytes, variant) -> the last committed set
                     \* since the last clear, and how many there were
    filled,          \* history: the keys a get-or-compute call has computed
                     \* and written since the last clear, per table
    pc,              \* concurrent callers: where each thread is in its call,
                     \* with the call's local variables
    lock,            \* TranscriptionMemory._lock: the thread holding it, 0 if free
    calls            \* concurrent callers: calls started

vars == <<files, exists, stream, transcriptions, embeddings, diarization, notes, now, last,
          puts, filled, pc, lock, calls>>

Keys == (FileContents \cup ShortContents) \X Variants

\* ------------------------------------------------------------------------
\* What transcribe_audio builds from the transcription model's output
\* ------------------------------------------------------------------------

\* words.append({"word": word.word.strip(), "start": ..., "end": ...})
WordsOf(whisper) ==
    Flatten([i \in 1..Len(whisper.segments) |->
        [j \in 1..Len(whisper.segments[i].words) |->
            Word(Strip(whisper.segments[i].words[j].word),
                 whisper.segments[i].words[j].start,
                 whisper.segments[i].words[j].end)]])

\* segments.append({"start": ..., "end": ..., "text": segment.text})
SegmentsOf(whisper) ==
    [i \in 1..Len(whisper.segments) |->
        Seg(whisper.segments[i].start, whisper.segments[i].end,
            whisper.segments[i].text)]

ResultOf(whisper) ==
    [text     |-> JoinSpace([i \in 1..Len(whisper.segments) |->
                                Strip(whisper.segments[i].text)]),
     language |-> whisper.language,
     duration |-> whisper.duration,
     segments |-> SegmentsOf(whisper),
     words    |-> WordsOf(whisper),
     cached   |-> FALSE]

\* the dicts handed to set()
Transcriptions == {ResultOf(w) : w \in WhisperOutputs}

\* a digest of the file's name instead of its bytes
hash_of_file_name(file_path) == HexDigest(<<Len(file_path)>>)

\* hash_audio_file: the digest of the bytes read from the path
hash_audio_file(file_path) == HexDigest(ReadChunks(files[file_path], <<>>))

\* dict.get(key, default)
DictGet(d, key, default) == IF key \in DOMAIN d THEN d[key] ELSE default

\* ------------------------------------------------------------------------
\* TranscriptionMemory: the note file
\* ------------------------------------------------------------------------

\* the text _write_markdown assembles
MarkdownOf(title, transcription, file_path) ==
    LET duration == DictGet(transcription, "duration", 0)
        segments == DictGet(transcription, "segments", <<>>)
    IN  [title    |-> title,
         source   |-> Basename(file_path),
         mins     |-> duration \div 60,
         secs     |-> duration % 60,
         language |-> DictGet(transcription, "language", "unknown"),
         body     |-> IF segments # <<>>
                      THEN [i \in 1..Len(segments) |->
                              [m    |-> segments[i].start \div 60,
                               s    |-> segments[i].start % 60,
                               text |-> <<Strip(segments[i].text)>>]]
                      ELSE << [m |-> 0, s |-> 0,
                               text |-> DictGet(transcription, "text", <<>>)] >>]

\* a note file that write_text truncated and did not finish
PartialNote ==
    [title |-> <<>>, source |-> <<>>, mins |-> 0, secs |-> 0,
     language |-> "", body |-> <<>>]

\* faults a call can meet
SetFaults == {"none", "hash", "md_open", "md_partial", "db"}

GetFaults == {"none", "hash", "db"}

\* _write_markdown: [path |-> Some(md_path) | None, notes |-> md_dir after]
_write_markdown(title, transcription, file_path, fault) ==
    LET md_path == MdPathOf(title)
    IN  CASE fault = "md_open" ->
               [path |-> None, notes |-> notes]
          [] fault = "md_partial" ->
               [path |-> None,
                notes |-> [notes EXCEPT ![md_path] = Some(PartialNote)]]
          [] OTHER ->
               [path |-> Some(md_path),
                notes |-> [notes EXCEPT
                    ![md_path] = Some(MarkdownOf(title, transcription, file_path))]]

\* ------------------------------------------------------------------------
\* TranscriptionMemory: get, set, clear
\* ------------------------------------------------------------------------

\* a plain INSERT on a table without the primary key
InsertAppend(table, row) == table \cup {row}

\* INSERT OR REPLACE on a table whose primary key is cache_key
InsertOrReplace(table, row) ==
    {r \in table : r.cache_key # row.cache_key} \cup {row}

\* SELECT * FROM table WHERE cache_key = ? ; fetchone()
FetchOne(table, cache_key) ==
    LET hits == {r \in table : r.cache_key = cache_key}
    IN  IF hits = {} THEN None ELSE Some(CHOOSE r \in hits : TRUE)

\* the row set() writes
TranscriptionRow(file_path, model_size, transcription, md) ==
    LET audio_hash == hash_audio_file(file_path)
    IN  [cache_key  |-> _cache_key(audio_hash, model_size),
         audio_hash |-> audio_hash,
         model_size |-> model_size,
         language   |-> DictGet(transcription, "language", "unknown"),
         duration   |-> DictGet(transcription, "duration", 0),
         text       |-> DictGet(transcription, "text", <<>>),
         words      |-> json_dumps(DictGet(transcription, "words", <<>>),
                                   WordKeys, TimeKeys),
         segments   |-> json_dumps(DictGet(transcription, "segments", <<>>),
                                   SegmentKeys, TimeKeys),
         created_at |-> now,
         file_path  |-> file_path,
         title      |-> _title_from_path(file_path),
         md_path    |-> IF md.path # None THEN md.path[1] ELSE <<>>]

\* an upsert that keeps the file_path, title and md_path of the row it finds
InsertTranscriptionMergingFields(file_path, model_size, transcription, md) ==
    Only({ Only({ IF old = None THEN transcriptions \cup {row}
                  ELSE (transcriptions \ {old[1]}) \cup
                       {[row EXCEPT !.file_path = old[1].file_path,
                                    !.title = old[1].title,
                                    !.md_path = old[1].md_path]}
                  : old \in {FetchOne(transcriptions, row.cache_key)} })
           : row \in {TranscriptionRow(file_path, model_size, transcription, md)} })

\* the INSERT OR REPLACE of set(), under the lock
InsertTranscription(file_path, model_size, transcription, md) ==
    InsertOrReplace(transcriptions,
                    TranscriptionRow(file_path, model_size, transcription, md))

\* set(): [transcriptions, notes] after the call; it never raises
set(file_path, model_size, transcription, fault) ==
    IF fault = "hash" \/ file_path \notin exists
    THEN [transcriptions |-> transcriptions, notes |-> notes, committed |-> FALSE]
    ELSE LET md == _write_markdown(_title_from_path(file_path), transcription,
                                   file_path, fault)
         IN  IF fault = "db"
             THEN [transcriptions |-> transcriptions, notes |-> md.notes,
                   committed |-> FALSE]
             ELSE [transcriptions |->
                       InsertTranscription(file_path, model_size, transcription, md),
                   notes |-> md.notes, committed |-> TRUE]

\* the body of get() under the lock: the row of cache_key in table as a
\* MemorizedTranscription; a row that does not decode raises, which get()
\* turns into None
SelectTranscription(table, cache_key) ==
    Only({ IF row = None THEN None
           ELSE Only({ IF ~words.ok \/ ~segments.ok THEN None
                       ELSE Some([audio_hash |-> row[1].audio_hash,
                                  model_size |-> row[1].model_size,
                                  language   |-> row[1].language,
                                  duration   |-> row[1].duration,
                                  text       |-> row[1].text,
                                  words      |-> words.list,
                                  segments   |-> segments.list,
                                  created_at |-> row[1].created_at,
                                  file_path  |-> row[1].file_path,
                                  title      |-> row[1].title])
                       : words \in {json_loads(row[1].words)},
                         segments \in {json_loads(row[1].segments)} })
           : row \in {FetchOne(table, cache_key)} })

\* get(): None | Some(MemorizedTranscription)
get(file_path, model_size, fault) ==
    IF fault # "none" \/ file_path \notin exists THEN None
    ELSE SelectTranscription(transcriptions,
             _cache_key(hash_audio_file(file_path), model_size))

\* clear(): failing is the set of note paths whose os.remove raises OSError
clear(failing) ==
    LET md_paths == {r.md_path : r \in {q \in transcriptions : q.md_path # <<>>}}
    IN  [count |-> Cardinality(transcriptions),
         notes |-> [m \in MdPaths |->
                      IF m \in md_paths /\ m \notin failing THEN None
                      ELSE notes[m]]]

\* ------------------------------------------------------------------------
\* TranscriptionMemory: embeddings
\* ------------------------------------------------------------------------

EMBEDDING_MODEL == <<"all-MiniLM-L6-v2">>

_embeddings_cache_key(audio_hash, embedding_model) ==
    audio_hash \o <<":">> \o embedding_model

\* the vector the sentence-transformer gives a text
EmbedText(text) ==
    CASE text = "hi" -> <<1, 0>>
      [] text = "yo" -> <<0, 1>>
      [] text = "a"  -> <<1, 1>>
      [] text = "b"  -> <<5, 1>>
      [] text = "no" -> <<0 - 1, 0>>
      [] text = "um" -> <<0, 0>>
      [] OTHER       -> <<1, 5>>

\* model.encode(texts, convert_to_numpy=True): one row per text
Encode(texts) == [i \in 1..Len(texts) |-> EmbedText(texts[i])]

\* embeddings.astype('float32').tobytes(): the rows one after the other
ToBytes(matrix) == Flatten(matrix)

\* np.frombuffer(blob).reshape(rows, cols): None stands for ValueError
Reshape(blob, rows, cols) ==
    IF Len(blob) # rows * cols THEN None
    ELSE Some([i \in 1..rows |-> SubSeq(blob, (i - 1) * cols + 1, i * cols)])

\* the body of get_embeddings() under the lock
SelectEmbeddings(table, cache_key) ==
    Only({ IF row = None THEN None
           ELSE Only({ IF m = None THEN None
                       ELSE Some([embeddings    |-> m[1],
                                  segment_count |-> row[1].segment_count,
                                  embedding_dim |-> row[1].embedding_dim])
                       : m \in {Reshape(row[1].embeddings, row[1].segment_count,
                                        row[1].embedding_dim)} })
           : row \in {FetchOne(table, cache_key)} })

\* get_embeddings(): None | Some(dict)
get_embeddings(audio_hash, embedding_model, fault) ==
    IF fault # "none" THEN None
    ELSE SelectEmbeddings(embeddings,
                          _embeddings_cache_key(audio_hash, embedding_model))

\* set_embeddings(): the table after the call, and whether the call raised;
\* the blob is built before the try block
set_embeddings(audio_hash, embedding_model, matrix, segment_count, embedding_dim, fault) ==
    IF fault = "serialize"
    THEN [embeddings |-> embeddings, committed |-> FALSE, raised |-> TRUE]
    ELSE IF fault = "db"
    THEN [embeddings |-> embeddings, committed |-> FALSE, raised |-> FALSE]
    ELSE [embeddings |->
              InsertOrReplace(embeddings,
                  [cache_key       |-> _embeddings_cache_key(audio_hash, embedding_model),
                   audio_hash      |-> audio_hash,
                   embedding_model |-> embedding_model,
                   segment_count   |-> segment_count,
                   embedding_dim   |-> embedding_dim,
                   embeddings      |-> ToBytes(matrix),
                   created_at      |-> now]),
          committed |-> TRUE, raised |-> FALSE]

\* ------------------------------------------------------------------------
\* TranscriptionMemory: diarization
\* ------------------------------------------------------------------------

\* num_speakers values: None or a count
Hints == {None, Some(1)}

\* f"{num_speakers}"
HintStr(num_speakers) ==
    IF num_speakers = None THEN <<"N", "o", "n", "e">>
    ELSE <<NumToStr(num_speakers[1])>>

_diarization_cache_key(audio_hash, num_speakers) ==
    audio_hash \o <<":", "s", "p", "k", ":">> \o HintStr(num_speakers)

\* the body of get_diarization() under the lock
SelectDiarization(table, cache_key) ==
    Only({ IF row = None THEN None
           ELSE Only({ IF ~speakers.ok \/ ~turns.ok THEN None
                       ELSE Some([speakers |-> speakers.list,
                                  turns    |-> turns.list])
                       : speakers \in {json_loads(row[1].speakers)},
                         turns \in {json_loads(row[1].turns)} })
           : row \in {FetchOne(table, cache_key)} })

\* get_diarization(): None | Some(dict)
get_diarization(audio_hash, num_speakers, fault) ==
    IF fault # "none" THEN None
    ELSE SelectDiarization(diarization,
                           _diarization_cache_key(audio_hash, num_speakers))

\* set_diarization(): the table after the call; it never raises
set_diarization(audio_hash, speakers, turns, num_speakers, fault) ==
    IF fault # "none"
    THEN [diarization |-> diarization, committed |-> FALSE]
    ELSE [diarization |->
              InsertOrReplace(diarization,
                  [cache_key    |-> _diarization_cache_key(audio_hash, num_speakers),
                   audio_hash   |-> audio_hash,
                   num_speakers |-> num_speakers,
                   speakers     |-> json_dumps(speakers, <<>>, {}),
                   turns        |-> json_dumps(turns, TurnKeys, TimeKeys),
                   created_at   |-> now]),
          committed |-> TRUE]

\* ------------------------------------------------------------------------
\* Keyword search (search.py)
\* ------------------------------------------------------------------------

\* the characters of the strings that are searched and searched for
CharsOf(str) ==
    CASE str = "The"       -> <<"T", "h", "e">>
      [] str = "the"       -> <<"t", "h", "e">>
      [] str = "last"      -> <<"l", "a", "s", "t">>
      [] str = "year"      -> <<"y", "e", "a", "r">>
      [] str = "Year"      -> <<"Y", "e", "a", "r">>
      [] str = "year."     -> <<"y", "e", "a", "r", ".">>
      [] str = "ea"        -> <<"e", "a">>
      [] str = "last year" -> <<"l", "a", "s", "t", " ", "y", "e", "a", "r">>
      [] str = "the year"  -> <<"t", "h", "e", " ", "y", "e", "a", "r">>
      [] str = " "         -> <<" ">>
      [] str = ""          -> <<>>
      [] str = "hi"        -> <<"h", "i">>
      [] str = "yo"        -> <<"y", "o">>
      [] str = "a"         -> <<"a">>
      [] str = "b"         -> <<"b">>
      [] OTHER             -> <<str>>

UpperLetters == <<"A", "B", "C", "D", "E", "F", "G", "H", "I", "J", "K", "L", "M",
                  "N", "O", "P", "Q", "R", "S", "T", "U", "V", "W", "X", "Y", "Z">>

LowerLetters == <<"a", "b", "c", "d", "e", "f", "g", "h", "i", "j", "k", "l", "m",
                  "n", "o", "p", "q", "r", "s", "t", "u", "v", "w", "x", "y", "z">>

\* str.lower()
Lower(chars) ==
    [i \in 1..Len(chars) |->
        IF \E n \in 1..26 : UpperLetters[n] = chars[i]
        THEN LowerLetters[CHOOSE n \in 1..26 : UpperLetters[n] = chars[i]]
        ELSE chars[i]]

\* the characters clean_word() strips
Punctuation == {".", ",", "!", "?", ";", ":", "'", "\"", "(", ")", "-",
                "[", "]", "{", "}"}

\* str.strip(characters)
RECURSIVE StripChars(_, _)
StripChars(chars, drop) ==
    IF chars = <<>> THEN chars
    ELSE IF Head(chars) \in drop THEN StripChars(Tail(chars), drop)
    ELSE IF chars[Len(chars)] \in drop
         THEN StripChars(SubSeq(chars, 1, Len(chars) - 1), drop)
    ELSE chars

clean_word(word) == StripChars(StripChars(Lower(word), Punctuation), {" "})

\* sub in chars
Contains(chars, sub) ==
    \E i \in 0..(Len(chars) - Len(sub)) : SubSeq(chars, i + 1, i + Len(sub)) = sub

\* str.split(): the pieces between runs of whitespace
RECURSIVE Split(_, _, _)
Split(chars, i, piece) ==
    IF i > Len(chars) THEN (IF piece = <<>> THEN <<>> ELSE <<piece>>)
    ELSE IF chars[i] = " "
         THEN (IF piece = <<>> THEN <<>> ELSE <<piece>>) \o Split(chars, i + 1, <<>>)
    ELSE Split(chars, i + 1, Append(piece, chars[i]))

\* the start of a word is a float; the model counts tenths of a second
TicksPerSecond == 10

\* format_timestamp(seconds): mm:ss of the whole seconds
format_timestamp(seconds) ==
    [mins |-> (seconds \div TicksPerSecond) \div 60,
     secs |-> (seconds \div TicksPerSecond) % 60]

\* get_context(words, center_idx, context_words, end_idx), indices from 1
get_context(words, center_idx, context_words, end_idx) ==
    <<"...">>
    \o JoinSpace([i \in 1..(Min(Len(words), end_idx + context_words)
                           - Max(0, center_idx - 1 - context_words)) |->
                    words[Max(0, center_idx - 1 - context_words) + i].word])
    \o <<"...">>

DefaultContextWords == 11

\* _match_phrase(words, start_idx, phrase_parts), start_idx from 1
_match_phrase(words, start_idx, phrase_parts) ==
    /\ start_idx - 1 + Len(phrase_parts) <= Len(words)
    /\ \A j \in 1..Len(phrase_parts) :
          \E check_word \in {clean_word(CharsOf(words[start_idx + j - 1].word))} :
              Contains(check_word, phrase_parts[j]) \/ check_word = phrase_parts[j]

\* the Match search_exact() appends for word i and a lowered keyword, if any
ExactMatches(words, i, keyword, context_words) ==
    Only({ Only({
        IF Len(keyword_parts) = 1
        THEN IF Contains(current_word, keyword) \/ current_word = keyword
             THEN << [keyword |-> keyword,
                      timestamp |-> format_timestamp(words[i].start),
                      timestamp_seconds |-> words[i].start,
                      snippet |-> get_context(words, i, context_words, i),
                      confidence |-> [num |-> 1, den |-> 1],
                      match_type |-> "exact"] >>
             ELSE <<>>
        ELSE IF _match_phrase(words, i, keyword_parts)
             THEN << [keyword |-> keyword,
                      timestamp |-> format_timestamp(words[i].start),
                      timestamp_seconds |-> words[i].start,
                      snippet |-> get_context(words, i, context_words,
                                              i + Len(keyword_parts) - 1),
                      confidence |-> [num |-> 1, den |-> 1],
                      match_type |-> "phrase"] >>
             ELSE <<>>
        : keyword_parts \in {Split(keyword, 1, <<>>)} })
      : current_word \in {clean_word(CharsOf(words[i].word))} })

\* KeywordSearcher(context_words).search_exact(words, keywords); keywords
\* are character sequences
search_exact_with(context_words, words, keywords) ==
    Flatten([i \in 1..Len(words) |->
               Flatten([k \in 1..Len(keywords) |->
                          ExactMatches(words, i, Lower(keywords[k]),
                                       context_words)])])

\* KeywordSearcher().search_exact(words, keywords)
search_exact(words, keywords) ==
    search_exact_with(DefaultContextWords, words, keywords)

Abs(n) == IF n < 0 THEN 0 - n ELSE n

\* a pairing that also accepts a word paired with itself
WithinDistanceOrSame(pos1, pos2, max_distance) ==
    0 <= Abs(pos1 - pos2) /\ Abs(pos1 - pos2) <= max_distance

\* 0 < distance <= max_distance
WithinDistance(pos1, pos2, max_distance) ==
    0 < Abs(pos1 - pos2) /\ Abs(pos1 - pos2) <= max_distance

\* the indices of the words that contain the lowered keyword
PositionsOf(words, keyword_lower) ==
    SelectSeq([i \in 1..Len(words) |-> i],
              LAMBDA i : Contains(clean_word(CharsOf(words[i].word)), keyword_lower))

\* a pairing that keeps only the pairs exactly max_distance apart
ProximityPairsAtDistance(positions1, positions2, max_distance) ==
    Flatten([a \in 1..Len(positions1) |->
               Flatten([b \in 1..Len(positions2) |->
                          IF Abs(positions1[a] - positions2[b]) = max_distance
                             /\ max_distance > 0
                          THEN << <<positions1[a], positions2[b]>> >>
                          ELSE <<>>])])

\* the pairs (pos1, pos2) the nested loops of search_proximity() accept, in
\* the order they meet them
ProximityPairs(positions1, positions2, max_distance) ==
    Flatten([a \in 1..Len(positions1) |->
               Flatten([b \in 1..Len(positions2) |->
                          IF WithinDistance(positions1[a], positions2[b],
                                            max_distance)
                          THEN << <<positions1[a], positions2[b]>> >>
                          ELSE <<>>])])

\* the Match of a pair; confidence 1.0 - (distance / max_distance) * 0.3 as
\* a fraction
ProximityMatch(words, keyword1, keyword2, pair, max_distance) ==
    [keyword |-> keyword1 \o <<" near ">> \o keyword2,
     timestamp |-> format_timestamp(words[pair[1]].start),
     timestamp_seconds |-> words[pair[1]].start,
     snippet |-> get_context(words, Min(pair[1], pair[2]), 2,
                             Max(pair[1], pair[2])),
     confidence |-> [num |-> 10 * max_distance - 3 * Abs(pair[1] - pair[2]),
                     den |-> 10 * max_distance],
     match_type |-> "proximity"]

\* the first match of every (keyword, timestamp)
RECURSIVE UniqueMatches(_, _, _)
UniqueMatches(matches, i, seen) ==
    IF i > Len(matches) THEN <<>>
    ELSE IF <<matches[i].keyword, matches[i].timestamp>> \in seen
         THEN UniqueMatches(matches, i + 1, seen)
    ELSE <<matches[i]>>
         \o UniqueMatches(matches, i + 1,
                          seen \cup {<<matches[i].keyword, matches[i].timestamp>>})

\* KeywordSearcher.search_proximity(words, keyword1, keyword2, max_distance)
search_proximity(words, keyword1, keyword2, max_distance) ==
    Only({ UniqueMatches([n \in 1..Len(pairs) |->
                            ProximityMatch(words, keyword1, keyword2, pairs[n],
                                           max_distance)], 1, {})
           : pairs \in {ProximityPairs(PositionsOf(words, Lower(keyword1)),
                                       PositionsOf(words, Lower(keyword2)),
                                       max_distance)} })

\* the characters of each keyword of a list
KeywordChars(keywords) == [n \in 1..Len(keywords) |-> CharsOf(keywords[n])]

\* list.sort(key): the stable insertion of a match into a sorted list
RECURSIVE InsertByTimestamp(_, _)
InsertByTimestamp(sorted, m) ==
    IF sorted = <<>> THEN <<m>>
    ELSE IF sorted[Len(sorted)].timestamp_seconds <= m.timestamp_seconds
         THEN Append(sorted, m)
    ELSE Append(InsertByTimestamp(SubSeq(sorted, 1, Len(sorted) - 1), m),
                sorted[Len(sorted)])

\* a sort that drops a match whose timestamp is already in the list
RECURSIVE SortDroppingTies(_, _, _)
SortDroppingTies(matches, i, sorted) ==
    IF i > Len(matches) THEN sorted
    ELSE IF \E n \in 1..Len(sorted) :
               sorted[n].timestamp_seconds = matches[i].timestamp_seconds
         THEN SortDroppingTies(matches, i + 1, sorted)
    ELSE SortDroppingTies(matches, i + 1, InsertByTimestamp(sorted, matches[i]))

\* all_matches.sort(key=lambda m: m.timestamp_seconds)
RECURSIVE SortByTimestamp(_, _, _)
SortByTimestamp(matches, i, sorted) ==
    IF i > Len(matches) THEN sorted
    ELSE SortByTimestamp(matches, i + 1, InsertByTimestamp(sorted, matches[i]))

\* KeywordSearcher.search(words, keywords, proximity_pairs); a pair is
\* (kw1, kw2, distance)
search(words, keywords, proximity_pairs) ==
    SortByTimestamp(
        search_exact(words, keywords)
        \o Flatten([n \in 1..Len(proximity_pairs) |->
                      search_proximity(words, proximity_pairs[n][1],
                                       proximity_pairs[n][2],
                                       proximity_pairs[n][3])]),
        1, <<>>)

\* find_keyword_matches(words, keywords): the matches as dicts
find_keyword_matches(words, keywords) == search(words, keywords, <<>>)

\* search_with_proximity(words, keyword1, keyword2, max_distance)
search_with_proximity(words, keyword1, keyword2, max_distance) ==
    search_proximity(words, keyword1, keyword2, max_distance)

\* ------------------------------------------------------------------------
\* The callers: transcribe_audio, deep_search, detect_chapters,
\* search_memory, identify_speakers
\* ------------------------------------------------------------------------

\* which store call of a handler fails: the lookups and writes of the
\* transcription (t), the embeddings (e) and the diarization (d)
NoFaults ==
    [tget |-> "none", tset |-> "none", eget |-> "none", eset |-> "none",
     dget |-> "none", dset |-> "none"]

\* model.transcribe(audio_path): what the whisper variant hears in the bytes
WhisperFor(content, model_size) ==
    IF content = <<3>> THEN WhisperC
    ELSE IF content = <<4>> THEN WhisperD
    ELSE IF (content = <<1>>) = (model_size = <<"t">>) THEN WhisperA ELSE WhisperB

\* the dict transcribe_audio() builds from a stored record
CachedResult(stored) ==
    [text     |-> stored.text,
     language |-> stored.language,
     duration |-> stored.duration,
     segments |-> stored.segments,
     words    |-> stored.words,
     cached   |-> TRUE]

\* transcribe_audio(use_cache=True): the dict returned, the store after the
\* call and the models run
transcribe_audio(audio_path, model_size, whisper, f) ==
    IF audio_path \notin exists
    THEN [ret |-> None, transcriptions |-> transcriptions, notes |-> notes,
          invoked |-> {}, committed |-> FALSE, raised |-> TRUE,
          error |-> "not found", accessed |-> {}]
    ELSE
    Only({ IF stored # None
           THEN [ret |-> CachedResult(stored[1]),
                 transcriptions |-> transcriptions, notes |-> notes,
                 invoked |-> {}, committed |-> FALSE, raised |-> FALSE,
                 error |-> "none", accessed |-> {"hash", "lookup"}]
           ELSE Only({ [ret |-> ResultOf(whisper),
                        transcriptions |-> r.transcriptions, notes |-> r.notes,
                        invoked |-> {"whisper"}, committed |-> r.committed,
                        raised |-> FALSE, error |-> "none",
                        accessed |-> {"hash", "lookup", "write"}]
                       : r \in {set(audio_path, model_size, ResultOf(whisper),
                                    f.tset)} })
           : stored \in {get(audio_path, model_size, f.tget)} })

\* transcribe_audio(use_cache=False): the store is not consulted
transcribe_audio_uncached(audio_path, whisper) ==
    IF audio_path \notin exists
    THEN [ret |-> None, transcriptions |-> transcriptions, notes |-> notes,
          invoked |-> {}, committed |-> FALSE, raised |-> TRUE,
          error |-> "not found", accessed |-> {}]
    ELSE [ret |-> ResultOf(whisper),
          transcriptions |-> transcriptions, notes |-> notes,
          invoked |-> {"whisper"}, committed |-> FALSE, raised |-> FALSE,
          error |-> "none", accessed |-> {}]

\* transcribe_audio(audio_path, model_size, use_cache)
transcribe_audio_with(use_cache, audio_path, model_size, whisper) ==
    IF use_cache THEN transcribe_audio(audio_path, model_size, whisper, NoFaults)
    ELSE transcribe_audio_uncached(audio_path, whisper)

\* a progress value as a fraction
Fraction(num, den) == [num |-> num, den |-> den]

\* TranscriptionProgress(status, progress)
TranscriptionProgress(status, progress) == [status |-> status, progress |-> progress]

\* min(0.95, segment.end / duration), duration being info.duration or 1.0
\* when that is 0
progress_pct(segment, info_duration) ==
    Only({ IF segment.end * 100 <= 95 * duration
           THEN Fraction(segment.end, duration) ELSE Fraction(95, 100)
           : duration \in {IF info_duration # 0 THEN info_duration ELSE 1} })

\* the progress events transcribe_audio_streaming() yields when it is run
\* to its end: one for a stored transcription, else the loading, the start,
\* one per segment and the end
ProgressEvents(cached, whisper) ==
    IF cached
    THEN <<TranscriptionProgress("complete", Fraction(1, 1))>>
    ELSE <<TranscriptionProgress("loading_model", Fraction(0, 1)),
           TranscriptionProgress("transcribing", Fraction(5, 100))>>
         \o [i \in 1..Len(whisper.segments) |->
               TranscriptionProgress("segment",
                                     progress_pct(whisper.segments[i],
                                                  whisper.duration))]
         \o <<TranscriptionProgress("complete", Fraction(1, 1))>>

\* transcribe_audio_streaming(audio_path, model_size, use_cache) run to its
\* end: as transcribe_audio, with the events yielded on the way
transcribe_audio_streaming(use_cache, audio_path, model_size, whisper) ==
    Only({ [ret |-> tr.ret, transcriptions |-> tr.transcriptions,
            notes |-> tr.notes, invoked |-> tr.invoked,
            committed |-> tr.committed, raised |-> tr.raised,
            error |-> tr.error, accessed |-> tr.accessed,
            events |-> IF tr.raised THEN <<>>
                       ELSE ProgressEvents(tr.ret.cached, whisper)]
           : tr \in {transcribe_audio_with(use_cache, audio_path, model_size,
                                           whisper)} })

\* the words of a transcription as the searcher reads them: the model
\* counts their times in seconds, the searcher in ticks
InTicks(words) ==
    [i \in 1..Len(words) |->
        [word |-> words[i].word, start |-> words[i].start * TicksPerSecond,
         end |-> words[i].end * TicksPerSecond]]

\* the dict search_audio() builds: keyword -> its matches in order
Grouped(matches) ==
    [kw \in {matches[n].keyword : n \in 1..Len(matches)} |->
        [n \in 1..Len(SelectSeq(matches, LAMBDA m : m.keyword = kw)) |->
            [timestamp |-> SelectSeq(matches, LAMBDA m : m.keyword = kw)[n].timestamp,
             timestamp_seconds |->
                 SelectSeq(matches, LAMBDA m : m.keyword = kw)[n].timestamp_seconds,
             snippet |-> SelectSeq(matches, LAMBDA m : m.keyword = kw)[n].snippet]]]

\* search_audio(audio_path, keywords, model_size)
search_audio(audio_path, keywords, model_size, whisper, f) ==
    Only({ IF tr.raised THEN tr
           ELSE [tr EXCEPT !.ret = Grouped(find_keyword_matches(InTicks(@.words),
                                                                keywords))]
           : tr \in {transcribe_audio(audio_path, model_size, whisper, f)} })

\* search_audio_full(audio_path, keywords, model_size)
search_audio_full(audio_path, keywords, model_size, whisper, f) ==
    Only({ IF tr.raised THEN tr
           ELSE [tr EXCEPT !.ret =
                    [text |-> @.text, language |-> @.language,
                     duration |-> @.duration, cached |-> @.cached,
                     matches |-> find_keyword_matches(InTicks(@.words), keywords)]]
           : tr \in {transcribe_audio(audio_path, model_size, whisper, f)} })

\* search_audio_proximity(audio_path, keyword1, keyword2, max_distance,
\* model_size)
search_audio_proximity(audio_path, keyword1, keyword2, max_distance, model_size, whisper, f) ==
    Only({ IF tr.raised THEN tr
           ELSE [tr EXCEPT !.ret = search_with_proximity(InTicks(@.words), keyword1,
                                                         keyword2, max_distance)]
           : tr \in {transcribe_audio(audio_path, model_size, whisper, f)} })

\* search_audio, search_audio_full and search_audio_proximity with
\* use_cache: the result made of the transcription
SearchResultOf(op, transcription, keywords, max_distance) ==
    CASE op = "search_audio" ->
           Grouped(find_keyword_matches(InTicks(transcription.words), keywords))
      [] op = "search_audio_full" ->
           [text |-> transcription.text, language |-> transcription.language,
            duration |-> transcription.duration, cached |-> transcription.cached,
            matches |-> find_keyword_matches(InTicks(transcription.words), keywords)]
      [] op = "search_audio_proximity" ->
           search_with_proximity(InTicks(transcription.words), keywords[1],
                                 keywords[2], max_distance)
      [] OTHER -> transcription

\* search_audio_streaming(audio_path, keywords, model_size,
\* use_cache=False) run to its end: the generator of
\* transcribe_audio_streaming(use_cache=False) is read up to its complete
\* event, which leaves the store alone; then
\* transcribe_audio(use_cache=True) is called for the words
search_audio_streaming(audio_path, keywords, model_size, whisper) ==
    Only({ IF streamed.raised THEN streamed
           ELSE Only({
             [ret |-> [text |-> tr.ret.text, language |-> tr.ret.language,
                       duration |-> tr.ret.duration,
                       matches |-> Grouped(all_matches),
                       total_matches |-> Len(all_matches)],
              transcriptions |-> tr.transcriptions, notes |-> tr.notes,
              invoked |-> streamed.invoked
                          \cup (IF "whisper" \in tr.invoked
                                THEN {"whisper again"} ELSE {}),
              committed |-> tr.committed, raised |-> FALSE, error |-> "none",
              accessed |-> streamed.accessed \cup tr.accessed,
              events |-> streamed.events]
             : all_matches \in {find_keyword_matches(InTicks(tr.ret.words),
                                                     keywords)} })
           : streamed \in {transcribe_audio_streaming(FALSE, audio_path,
                                                      model_size, whisper)},
             tr \in {transcribe_audio(audio_path, model_size, whisper, NoFaults)} })

\* one resumption of the generator transcribe_audio_streaming() returns: the
\* body runs from where it stands to its next yield, its return or its raise
stream_next(whisper) ==
    CASE stream.at = "created" ->
           IF stream.path \notin exists
           THEN [at |-> "closed", stored |-> None, yielded |-> None,
                 ret |-> None, raised |-> TRUE, error |-> "not found",
                 accessed |-> {}, invoked |-> {},
                 transcriptions |-> transcriptions, notes |-> notes,
                 committed |-> FALSE]
           ELSE Only({ [at |-> IF stored # None THEN "cached" ELSE "loading",
                        stored |-> stored,
                        yielded |-> IF stored # None THEN Some("complete")
                                    ELSE Some("loading_model"),
                        ret |-> None, raised |-> FALSE, error |-> "none",
                        accessed |-> {"hash", "lookup"}, invoked |-> {},
                        transcriptions |-> transcriptions, notes |-> notes,
                        committed |-> FALSE]
                       : stored \in {get(stream.path, stream.model_size, "none")} })
      [] stream.at = "cached" ->
           [at |-> "closed", stored |-> None, yielded |-> None,
            ret |-> Some(CachedResult(stream.stored[1])), raised |-> FALSE,
            error |-> "none", accessed |-> {}, invoked |-> {},
            transcriptions |-> transcriptions, notes |-> notes,
            committed |-> FALSE]
      [] stream.at = "loading" ->
           [at |-> "transcribing", stored |-> None,
            yielded |-> Some("transcribing"), ret |-> None, raised |-> FALSE,
            error |-> "none", accessed |-> {}, invoked |-> {},
            transcriptions |-> transcriptions, notes |-> notes,
            committed |-> FALSE]
      [] stream.at = "transcribing" ->
           IF stream.path \notin exists
           THEN [at |-> "closed", stored |-> None, yielded |-> None,
                 ret |-> None, raised |-> TRUE, error |-> "other",
                 accessed |-> {}, invoked |-> {"whisper"},
                 transcriptions |-> transcriptions, notes |-> notes,
                 committed |-> FALSE]
           ELSE Only({ [at |-> "complete", stored |-> Some(ResultOf(whisper)),
                        yielded |-> Some("complete"), ret |-> None,
                        raised |-> FALSE, error |-> "none",
                        accessed |-> {"hash", "write"}, invoked |-> {"whisper"},
                        transcriptions |-> r.transcriptions, notes |-> r.notes,
                        committed |-> r.committed]
                       : r \in {set(stream.path, stream.model_size,
                                    ResultOf(whisper), "none")} })
      [] OTHER ->
           [at |-> "closed", stored |-> None, yielded |-> None,
            ret |-> stream.stored, raised |-> FALSE, error |-> "none",
            accessed |-> {}, invoked |-> {},
            transcriptions |-> transcriptions, notes |-> notes,
            committed |-> FALSE]

\* [seg["text"].strip() for seg in segments]
TextsOf(segments) == [i \in 1..Len(segments) |-> Strip(segments[i].text)]

\* a variant that recomputes when the stored segment_count is not the number
\* of segments
_get_or_compute_embeddings_checking_count(segments, audio_hash, f) ==
    Only({ IF stored # None /\ stored[1].segment_count = Len(segments)
           THEN [ret |-> Some(stored[1].embeddings), embeddings |-> embeddings,
                 invoked |-> {}, committed |-> FALSE, raised |-> FALSE]
           ELSE Only({ [ret |-> IF r.raised THEN None ELSE Some(Encode(TextsOf(segments))),
                        embeddings |-> r.embeddings,
                        invoked |-> {"embed_segments"},
                        committed |-> r.committed, raised |-> r.raised]
                       : r \in {set_embeddings(audio_hash, EMBEDDING_MODEL,
                                    Encode(TextsOf(segments)), Len(segments),
                                    2, f.eset)} })
           : stored \in {get_embeddings(audio_hash, EMBEDDING_MODEL, f.eget)} })

\* _get_or_compute_embeddings(): the matrix returned (None when the call
\* raised), the embeddings table after the call and the models run
_get_or_compute_embeddings(segments, audio_hash, f) ==
    Only({ IF stored # None
           THEN [ret |-> Some(stored[1].embeddings), embeddings |-> embeddings,
                 invoked |-> {}, committed |-> FALSE, raised |-> FALSE]
           ELSE Only({ [ret |-> IF r.raised THEN None ELSE Some(Encode(TextsOf(segments))),
                        embeddings |-> r.embeddings,
                        invoked |-> {"embed_segments"},
                        committed |-> r.committed, raised |-> r.raised]
                       : r \in {set_embeddings(audio_hash, EMBEDDING_MODEL,
                                    Encode(TextsOf(segments)), Len(segments),
                                    2, f.eset)} })
           : stored \in {get_embeddings(audio_hash, EMBEDDING_MODEL, f.eget)} })

Dot(a, b) == a[1] * b[1] + a[2] * b[2]

\* the sign of n times its square
SignedSquare(n) == IF n < 0 THEN 0 - n * n ELSE n * n

\* _cosine_similarity(query, v) = dot / (norm_q * norm_e + 1e-8), as the
\* fraction num/den of its square with the sign of the dot product, which
\* is in the order of the cosines; an all-zero vector gives 0 / 1e-8 = 0;
\* round(..., 4) keeps the order and the sign
Similarity(query_embedding, v) ==
    [num |-> SignedSquare(Dot(query_embedding, v)),
     den |-> IF Dot(query_embedding, query_embedding) * Dot(v, v) = 0 THEN 1
             ELSE Dot(query_embedding, query_embedding) * Dot(v, v)]

\* similarity a >= similarity b
AtLeast(a, b) == a.num * b.den >= b.num * a.den

\* _cosine_similarity(a, v) > _cosine_similarity(a, w)
MoreSimilar(a, v, w) == ~AtLeast(Similarity(a, w), Similarity(a, v))

\* np.argsort(-similarities): the orders of the row indices by falling
\* similarity; the default sort kind is not stable, so rows of equal
\* similarity may come in any order
RECURSIVE ArgSort(_, _, _)
ArgSort(query_embedding, matrix, rest) ==
    IF rest = {} THEN {<<>>}
    ELSE UNION { {<<best>> \o tail
                  : tail \in ArgSort(query_embedding, matrix, rest \ {best})}
                 : best \in {i \in rest : \A j \in rest :
                                ~MoreSimilar(query_embedding, matrix[j], matrix[i])} }

DefaultTopK == 5

\* the top_k values asked for: none, one, the default
TopKs == {0, 1, DefaultTopK}

\* two candidates fall into one dedup window whatever their sources
CollapsesAcrossSources(a, b, sources, starts, dedup_seconds) ==
    Abs(starts[a] - starts[b]) <= dedup_seconds

\* two candidates are collapsed: they come from the same source and their
\* segment start times lie within dedup_seconds of each other
Collapses(a, b, sources, starts, dedup_seconds) ==
    /\ sources[a] = sources[b]
    /\ Abs(starts[a] - starts[b]) <= dedup_seconds

\* the pass with the window test turned round: candidates further apart
\* than the window are collapsed
RECURSIVE DedupFar(_, _, _, _, _)
DedupFar(ranked, kept, sources, starts, dedup_seconds) ==
    IF ranked = <<>> THEN kept
    ELSE IF \E n \in 1..Len(kept) :
               /\ sources[kept[n]] = sources[Head(ranked)]
               /\ Abs(starts[kept[n]] - starts[Head(ranked)]) >= dedup_seconds
         THEN DedupFar(Tail(ranked), kept, sources, starts, dedup_seconds)
         ELSE DedupFar(Tail(ranked), Append(kept, Head(ranked)), sources, starts,
                       dedup_seconds)

\* the temporal deduplication pass over the ranked candidates, best first:
\* a candidate is dropped when a candidate kept before it collapses with it,
\* so of two collapsed candidates the more similar one stays
RECURSIVE Dedup(_, _, _, _, _)
Dedup(ranked, kept, sources, starts, dedup_seconds) ==
    IF ranked = <<>> THEN kept
    ELSE IF \E n \in 1..Len(kept) :
               Collapses(kept[n], Head(ranked), sources, starts, dedup_seconds)
         THEN Dedup(Tail(ranked), kept, sources, starts, dedup_seconds)
         ELSE Dedup(Tail(ranked), Append(kept, Head(ranked)), sources, starts,
                    dedup_seconds)

\* the indices of the results: the ranking, deduplicated unless
\* dedup_seconds is 0, then cut to top_k
TopIndices(ranked, sources, starts, top_k, dedup_seconds) ==
    IF dedup_seconds = 0 THEN SubSeq(ranked, 1, Min(top_k, Len(ranked)))
    ELSE Only({ SubSeq(d, 1, Min(top_k, Len(d)))
                : d \in {Dedup(ranked, <<>>, sources, starts, dedup_seconds)} })

\* the result rows of deep_search(): segments[idx] for the top indices;
\* None stands for the IndexError of an index past the last segment
ResultsOf(segments, top_indices, query_embedding, matrix) ==
    IF \E n \in 1..Len(top_indices) : top_indices[n] > Len(segments) THEN None
    ELSE Some([n \in 1..Len(top_indices) |->
                 [index |-> top_indices[n],
                  start |-> segments[top_indices[n]].start,
                  end   |-> segments[top_indices[n]].end,
                  similarity |-> Similarity(query_embedding,
                                            matrix[top_indices[n]])]])

\* what a handler did with the store: the transcription it searched, and the
\* vectors it ranked or segmented with
NoParts == [t |-> None, e |-> None, d |-> None]

\* what deep_search, detect_chapters and identify_speakers do when
\* os.path.exists(audio_path) is false
NotFound ==
    [ret |-> None, parts |-> NoParts, transcriptions |-> transcriptions,
     notes |-> notes, embeddings |-> embeddings, diarization |-> diarization,
     invoked |-> {}, tcommitted |-> FALSE, ecommitted |-> FALSE,
     dcommitted |-> FALSE, raised |-> TRUE, error |-> "not found",
     accessed |-> {}, ranked |-> <<>>]

\* what a handler reads and writes in the store after transcribe_audio
AccessedAfter(tr, committed) ==
    tr.accessed \cup {"hash", "lookup"}
    \cup (IF committed THEN {"write"} ELSE {})

\* deep_search(audio_path, query, model_size, top_k): the outcomes of the
\* call, one for each order np.argsort may give candidates of equal
\* similarity
deep_search(audio_path, query, model_size, top_k, dedup_seconds, whisper, f) ==
    IF audio_path \notin exists THEN {NotFound} ELSE
    UNION { IF tr.ret.segments = <<>>
           THEN {[ret |-> Some([query |-> query, results |-> <<>>, total_segments |-> 0]),
                 ranked |-> <<>>,
                 parts |-> [NoParts EXCEPT !.t = Some(tr.ret)],
                 transcriptions |-> tr.transcriptions, notes |-> tr.notes,
                 embeddings |-> embeddings, invoked |-> tr.invoked,
                 tcommitted |-> tr.committed, ecommitted |-> FALSE,
                 raised |-> FALSE, error |-> "none",
                 accessed |-> tr.accessed]}
           ELSE UNION {
                       { [ret |-> IF top.results = None THEN None
                                  ELSE Some([query |-> query,
                                             results |-> top.results[1],
                                             total_segments |-> Len(tr.ret.segments)]),
                          ranked |-> top.ranked,
                          parts |-> [NoParts EXCEPT !.t = Some(tr.ret), !.e = em.ret],
                          transcriptions |-> tr.transcriptions, notes |-> tr.notes,
                          embeddings |-> em.embeddings,
                          invoked |-> tr.invoked \cup em.invoked
                                      \cup (IF em.raised THEN {} ELSE {"embed_query"}),
                          tcommitted |-> tr.committed, ecommitted |-> em.committed,
                          raised |-> top.results = None,
                          error |-> IF top.results = None THEN "other" ELSE "none",
                          accessed |-> AccessedAfter(tr, em.committed)]
                         : top \in
                             IF em.raised THEN {[results |-> None, ranked |-> <<>>]}
                             ELSE IF dedup_seconds # 0
                                     /\ Len(em.ret[1]) > Len(tr.ret.segments)
                             THEN {[results |-> None, ranked |-> <<>>]}
                             ELSE { [ranked |-> ranked, results |->
                                    ResultsOf(tr.ret.segments,
                                      TopIndices(ranked,
                                                 [i \in 1..Len(tr.ret.segments) |-> 1],
                                                 [i \in 1..Len(tr.ret.segments) |->
                                                    tr.ret.segments[i].start],
                                                 Min(top_k, Len(tr.ret.segments)),
                                                 dedup_seconds),
                                      EmbedText(query), em.ret[1])]
                                    : ranked \in ArgSort(EmbedText(query), em.ret[1],
                                                         1..Len(em.ret[1])) } }
                  : em \in {_get_or_compute_embeddings(tr.ret.segments,
                                hash_audio_file(audio_path), f)} }
           : tr \in {transcribe_audio(audio_path, model_size, whisper, f)} }

\* the test turned round, as the docstring of detect_chapters has it
\* (0.0 = many small chapters, 1.0 = few large chapters): sim > sensitivity
HighSimilarity(v, w, num, den) ==
    IF num >= 0
    THEN Dot(v, w) > 0
         /\ den * den * Dot(v, w) * Dot(v, w) > num * num * Dot(v, v) * Dot(w, w)
    ELSE Dot(v, w) >= 0
         \/ den * den * Dot(v, w) * Dot(v, w) <= num * num * Dot(v, v) * Dot(w, w)

\* sim < sensitivity for sensitivity = num/den (den > 0), where
\* sim = dot / (norm * norm + 1e-8): dot * den < num * (norm * norm + 1e-8),
\* decided by the signs and the squares
LowSimilarity(v, w, num, den) ==
    IF num > 0
    THEN Dot(v, w) <= 0
         \/ den * den * Dot(v, w) * Dot(v, w) <= num * num * Dot(v, v) * Dot(w, w)
    ELSE IF num = 0 THEN Dot(v, w) < 0
    ELSE Dot(v, w) < 0
         /\ den * den * Dot(v, w) * Dot(v, w) > num * num * Dot(v, v) * Dot(w, w)

\* the segment indices (from 0) at which a chapter starts
\* the boundaries without the 0 they start from
BoundariesWithoutStart(matrix, num, den) ==
    SelectSeq([i \in 1..(Len(matrix) - 1) |-> i],
              LAMBDA i : LowSimilarity(matrix[i], matrix[i + 1], num, den))

\* boundaries = [0] and i + 1 for every consecutive pair with
\* sim < sensitivity
Boundaries(matrix, num, den) ==
    <<0>> \o SelectSeq([i \in 1..(Len(matrix) - 1) |-> i],
                       LAMBDA i : LowSimilarity(matrix[i], matrix[i + 1], num, den))

\* f"{int(t // 60)}:{int(t % 60):02d}"
Timestamp(t) == [mins |-> t \div 60, secs |-> t % 60]

\* segments[start:end]
Slice(seq, start, end) == SubSeq(seq, start + 1, Min(end, Len(seq)))

\* the chapters detect_chapters() builds; None stands for the IndexError of
\* a chapter without segments
ChaptersOf(segments, boundaries) ==
    LET chapter_segments(idx) ==
            Slice(segments, boundaries[idx],
                  IF idx + 1 <= Len(boundaries) THEN boundaries[idx + 1]
                  ELSE Len(segments))
    IN  IF \E idx \in 1..Len(boundaries) : chapter_segments(idx) = <<>> THEN None
        ELSE Some([idx \in 1..Len(boundaries) |->
                     Only({ [chapter_number  |-> idx,
                             start           |-> cs[1].start,
                             end             |-> cs[Len(cs)].end,
                             start_timestamp |-> Timestamp(cs[1].start),
                             end_timestamp   |-> Timestamp(cs[Len(cs)].end),
                             text            |-> JoinSpace(TextsOf(cs)),
                             segment_count   |-> Len(cs)]
                            : cs \in {chapter_segments(idx)} })])

\* the default sensitivity, 0.4
DefaultSensitivity == [num |-> 2, den |-> 5]

\* the single chapter with its times left at 0
SingleChapterFromZero(segments) ==
    [chapter_number  |-> 1,
     start           |-> 0,
     end             |-> 0,
     start_timestamp |-> Timestamp(0),
     end_timestamp   |-> Timestamp(0),
     text            |-> IF segments # <<>> THEN <<Strip(segments[1].text)>> ELSE <<>>,
     segment_count   |-> Len(segments)]

\* the chapter detect_chapters() builds for fewer than 2 segments
SingleChapter(segments) ==
    [chapter_number  |-> 1,
     start           |-> IF segments # <<>> THEN segments[1].start ELSE 0,
     end             |-> IF segments # <<>> THEN segments[1].end ELSE 0,
     start_timestamp |-> Timestamp(0),
     end_timestamp   |-> Timestamp(0),
     text            |-> IF segments # <<>> THEN <<Strip(segments[1].text)>> ELSE <<>>,
     segment_count   |-> Len(segments)]

\* detect_chapters(audio_path, model_size, sensitivity)
detect_chapters(audio_path, model_size, sensitivity, whisper, f) ==
    IF audio_path \notin exists THEN NotFound ELSE
    Only({ IF Len(tr.ret.segments) < 2
           THEN [ret |-> Some([chapters |-> <<SingleChapter(tr.ret.segments)>>,
                               total_chapters |-> 1]),
                 parts |-> [NoParts EXCEPT !.t = Some(tr.ret)],
                 transcriptions |-> tr.transcriptions, notes |-> tr.notes,
                 embeddings |-> embeddings, invoked |-> tr.invoked,
                 tcommitted |-> tr.committed, ecommitted |-> FALSE,
                 raised |-> FALSE, error |-> "none",
                 accessed |-> tr.accessed]
           ELSE Only({
                  Only({ [ret |-> IF chapters = None THEN None
                                  ELSE Some([chapters |-> chapters[1],
                                             total_chapters |-> Len(chapters[1])]),
                          parts |-> [NoParts EXCEPT !.t = Some(tr.ret), !.e = em.ret],
                          transcriptions |-> tr.transcriptions, notes |-> tr.notes,
                          embeddings |-> em.embeddings,
                          invoked |-> tr.invoked \cup em.invoked,
                          tcommitted |-> tr.committed, ecommitted |-> em.committed,
                          raised |-> chapters = None,
                          error |-> IF chapters = None THEN "other" ELSE "none",
                          accessed |-> AccessedAfter(tr, em.committed)]
                         : chapters \in
                             { IF em.raised THEN None
                               ELSE ChaptersOf(tr.ret.segments,
                                        Boundaries(em.ret[1], sensitivity.num,
                                                   sensitivity.den)) } })
                  : em \in {_get_or_compute_embeddings(tr.ret.segments,
                                hash_audio_file(audio_path), f)} })
           : tr \in {transcribe_audio(audio_path, model_size, whisper, f)} })

\* the audio identities with a stored transcription
StoredHashes == {r.audio_hash : r \in transcriptions}

\* the rows GROUP BY t.audio_hash may keep: one transcription per identity,
\* whichever variant
GroupPicks ==
    {pick \in [StoredHashes -> transcriptions] :
        \A h \in StoredHashes : pick[h].audio_hash = h}

\* one row of get_all_with_embeddings(): a transcription joined to the
\* embeddings of its audio identity
JoinedEntry(row) ==
    Only({ [audio_hash    |-> row.audio_hash,
            title         |-> row.title,
            file_path     |-> row.file_path,
            segments      |-> json_loads(row.segments).list,
            embeddings    |-> IF e = None THEN None
                              ELSE Reshape(e[1].embeddings, e[1].segment_count,
                                           e[1].embedding_dim),
            segment_count |-> IF e = None THEN 0 ELSE e[1].segment_count]
           : e \in {FetchOne(embeddings,
                        _embeddings_cache_key(row.audio_hash, EMBEDDING_MODEL))} })

\* get_all_with_embeddings(): the entries, as a function of audio identity
get_all_with_embeddings(pick) == [h \in DOMAIN pick |-> JoinedEntry(pick[h])]

\* the loop body of _search_memory_semantic() for one entry: the vectors the
\* entry is ranked with (None when the entry is left out of the search)
EntryVectors(entry) ==
    IF entry.segments = <<>>
    THEN [segments |-> <<>>, vectors |-> None, embeddings |-> embeddings,
          invoked |-> {}, committed |-> FALSE,
          title |-> entry.title, file_path |-> entry.file_path]
    ELSE Only({ [segments   |-> entry.segments,
                 title      |-> entry.title,
                 file_path  |-> entry.file_path,
                 vectors    |-> IF em.ret # None /\ Len(em.ret[1]) = Len(entry.segments)
                                THEN em.ret ELSE None,
                 embeddings |-> em.embeddings,
                 invoked    |-> em.invoked,
                 committed  |-> em.committed]
                : em \in { IF entry.embeddings = None
                              \/ Len(entry.segments) # entry.segment_count
                           THEN _get_or_compute_embeddings(entry.segments,
                                    entry.audio_hash, NoFaults)
                           ELSE [ret |-> entry.embeddings, embeddings |-> embeddings,
                                 invoked |-> {}, committed |-> FALSE,
                                 raised |-> FALSE] } })

\* len(all_segments): the segments of the entries that are searched
RECURSIVE TotalSegments(_, _)
TotalSegments(per, hs) ==
    IF hs = {} THEN 0
    ELSE LET h == CHOOSE x \in hs : TRUE
         IN  (IF per[h].vectors # None THEN Len(per[h].segments) ELSE 0)
             + TotalSegments(per, hs \ {h})

\* the orders in which the rows of a GROUP BY may come back
Orders(hs) ==
    {order \in [1..Cardinality(hs) -> hs] :
        \A i, j \in 1..Cardinality(hs) : i # j => order[i] # order[j]}

\* all_segments with all_embeddings stacked: the segments of the entries
\* that are searched, each with its row of the global matrix
AllSegments(per, order) ==
    Flatten([n \in 1..Len(order) |->
               IF per[order[n]].vectors = None THEN <<>>
               ELSE [i \in 1..Len(per[order[n]].segments) |->
                       [audio_hash |-> order[n], index |-> i,
                        title |-> per[order[n]].title,
                        file_path |-> per[order[n]].file_path,
                        segments |-> per[order[n]].segments,
                        segment |-> per[order[n]].segments[i],
                        vector |-> per[order[n]].vectors[1][i]]]])

\* text.strip().split() of a segment's text: the other texts of the
\* segments here hold no space inside
SplitText(text) ==
    CASE text = " r"     -> <<"r">>
      [] text = " p q"   -> <<"p", "q">>
      [] text = " s t u" -> <<"s", "t", "u">>
      [] OTHER -> IF Strip(text) = "" THEN <<>> ELSE <<Strip(text)>>

DefaultTargetWords == 25

\* the while loop of _build_snippet(): the words, left and right when it ends
RECURSIVE SnippetLoop(_, _, _, _, _)
SnippetLoop(segments, words, left, right, target_words) ==
    IF Len(words) >= target_words
    THEN [words |-> words, left |-> left, right |-> right]
    ELSE LET more  == right <= Len(segments)
             words1 == IF more THEN words \o SplitText(segments[right].text)
                       ELSE words
             right1 == IF more THEN right + 1 ELSE right
             less  == Len(words1) < target_words /\ left >= 1
             words2 == IF less THEN SplitText(segments[left].text) \o words1
                       ELSE words1
             left1 == IF less THEN left - 1 ELSE left
         IN  IF ~more /\ ~less
             THEN [words |-> words2, left |-> left1, right |-> right1]
             ELSE SnippetLoop(segments, words2, left1, right1, target_words)

\* a snippet with "..." in front whenever the center is not the first segment
BuildSnippetEllipsisBeforeCenter(segments, center_idx, target_words) ==
    Only({ [words  |-> SubSeq(l.words, 1, Min(Len(l.words), target_words)),
            before |-> center_idx > 1,
            after  |-> l.right <= Len(segments) \/ Len(l.words) > target_words]
           : l \in {SnippetLoop(segments, SplitText(segments[center_idx].text),
                                center_idx - 1, center_idx + 1, target_words)} })

\* _build_snippet(segments, center_idx, target_words): the words of the
\* snippet and whether "..." stands before and after; the queries here have
\* no word of 4 characters, so the highlight list is empty
_build_snippet(segments, center_idx, target_words) ==
    Only({ [words  |-> SubSeq(l.words, 1, Min(Len(l.words), target_words)),
            before |-> l.left >= 1,
            after  |-> l.right <= Len(segments) \/ Len(l.words) > target_words]
           : l \in {SnippetLoop(segments, SplitText(segments[center_idx].text),
                                center_idx - 1, center_idx + 1, target_words)} })

\* the result rows with the segment taken at the place in the result list
RankedAcrossByPosition(query_embedding, top_k, dedup_seconds, all_segments) ==
    { [ranked |-> top.ranked, rows |->
      [n \in 1..Len(top.indices) |->
         [audio_hash |-> all_segments[n].audio_hash,
          index |-> all_segments[n].index,
          title |-> all_segments[n].title,
          file_path |-> all_segments[n].file_path,
          start |-> all_segments[n].segment.start,
          end |-> all_segments[n].segment.end,
          text |-> _build_snippet(all_segments[n].segments,
                                  all_segments[n].index, DefaultTargetWords),
          similarity |-> Similarity(query_embedding,
                                    all_segments[top.indices[n]].vector)]]]
           : top \in
          {[ranked |-> ranked, indices |-> TopIndices(ranked,
                      [n \in 1..Len(all_segments) |-> all_segments[n].audio_hash],
                      [n \in 1..Len(all_segments) |-> all_segments[n].segment.start],
                      Min(top_k, Len(all_segments)), dedup_seconds)]
           : ranked \in ArgSort(query_embedding,
                          [n \in 1..Len(all_segments) |-> all_segments[n].vector],
                          1..Len(all_segments))} }

\* the result rows of _search_memory_semantic(): the top k of all_segments,
\* for each order np.argsort may give candidates of equal similarity
RankedAcross(query_embedding, top_k, dedup_seconds, all_segments) ==
    { [ranked |-> top.ranked, rows |->
      [n \in 1..Len(top.indices) |->
         [audio_hash |-> all_segments[top.indices[n]].audio_hash,
          index |-> all_segments[top.indices[n]].index,
          title |-> all_segments[top.indices[n]].title,
          file_path |-> all_segments[top.indices[n]].file_path,
          start |-> all_segments[top.indices[n]].segment.start,
          end |-> all_segments[top.indices[n]].segment.end,
          text |-> _build_snippet(all_segments[top.indices[n]].segments,
                                  all_segments[top.indices[n]].index,
                                  DefaultTargetWords),
          similarity |-> Similarity(query_embedding,
                                    all_segments[top.indices[n]].vector)]]]
           : top \in
          {[ranked |-> ranked, indices |-> TopIndices(ranked,
                      [n \in 1..Len(all_segments) |-> all_segments[n].audio_hash],
                      [n \in 1..Len(all_segments) |-> all_segments[n].segment.start],
                      Min(top_k, Len(all_segments)), dedup_seconds)]
           : ranked \in ArgSort(query_embedding,
                          [n \in 1..Len(all_segments) |-> all_segments[n].vector],
                          1..Len(all_segments))} }

\* search_memory(query, top_k, mode="semantic"): the results, per audio
\* identity the segments and the vectors searched, and the embeddings table
\* after the call
search_memory(query, top_k, dedup_seconds, pick, order) ==
    IF query = "" \/ Strip(query) = ""
    THEN {[results |-> <<>>, candidates |-> <<>>, used |-> {},
           total_segments |-> 0, files_searched |-> 0,
           embeddings |-> embeddings, invoked |-> {}, computed |-> {},
           raised |-> TRUE, error |-> "invalid input", ranked |-> <<>>]}
    ELSE
    UNION { UNION { {
           [results    |-> top.rows,
            ranked     |-> top.ranked,
            candidates |-> all_segments,
            used       |-> {[audio_hash |-> h, segments |-> per[h].segments,
                             vectors |-> per[h].vectors] : h \in DOMAIN per},
            total_segments |-> TotalSegments(per, DOMAIN per),
            files_searched |-> Cardinality(DOMAIN per),
            embeddings |-> UNION {per[h].embeddings : h \in DOMAIN per}
                           \cup embeddings,
            invoked    |-> UNION {per[h].invoked : h \in DOMAIN per}
                           \cup (IF \E h \in DOMAIN per : per[h].vectors # None
                                 THEN {"embed_query"} ELSE {}),
            computed   |-> {h \in DOMAIN per : per[h].committed},
            raised     |-> FALSE, error |-> "none"]
           : top \in IF all_segments = <<>> THEN {[rows |-> <<>>, ranked |-> <<>>]}
                         ELSE RankedAcross(EmbedText(query), top_k, dedup_seconds,
                                           all_segments) }
           : all_segments \in {AllSegments(per, order)} }
           : per \in {[h \in DOMAIN pick |->
                         EntryVectors(get_all_with_embeddings(pick)[h])]} }

\* diar.diarize(audio_path, num_speakers): the turns the diarizer hears
DiarizeFor(content, num_speakers) ==
    IF num_speakers = None
    THEN << [label |-> "A", start |-> 0, end |-> 2],
            [label |-> "B", start |-> 2, end |-> 65] >>
    ELSE << [label |-> "A", start |-> 0, end |-> 65] >>

LabelOrder == <<"A", "B">>

\* sorted(set(t["speaker"] for t in turns))
SortedSpeakers(turns) ==
    SelectSeq(LabelOrder, LAMBDA l : \E i \in 1..Len(turns) : turns[i].speaker = l)

\* the speaker of the turn that overlaps [seg_start, seg_end] most, the
\* first such turn on a tie
RECURSIVE BestSpeaker(_, _, _, _, _, _)
BestSpeaker(seg_start, seg_end, speaker_turns, i, best_speaker, best_overlap) ==
    IF i > Len(speaker_turns) THEN best_speaker
    ELSE LET overlap == Max(0, Min(seg_end, speaker_turns[i].end)
                               - Max(seg_start, speaker_turns[i].start))
         IN  IF overlap > best_overlap
             THEN BestSpeaker(seg_start, seg_end, speaker_turns, i + 1,
                              speaker_turns[i].speaker, overlap)
             ELSE BestSpeaker(seg_start, seg_end, speaker_turns, i + 1,
                              best_speaker, best_overlap)

_merge(transcript_segments, speaker_turns) ==
    [i \in 1..Len(transcript_segments) |->
        [speaker   |-> BestSpeaker(transcript_segments[i].start,
                                   transcript_segments[i].end,
                                   speaker_turns, 1, "Unknown", 0),
         start     |-> transcript_segments[i].start,
         end       |-> transcript_segments[i].end,
         text      |-> Strip(transcript_segments[i].text),
         timestamp |-> Timestamp(transcript_segments[i].start)]]

\* the turns identify_speakers() builds from the diarizer's segments
TurnsOf(raw_segments) ==
    [i \in 1..Len(raw_segments) |->
        [speaker |-> raw_segments[i].label,
         start   |-> raw_segments[i].start,
         end     |-> raw_segments[i].end]]

\* identify_speakers(audio_path, model_size, num_speakers)
identify_speakers(audio_path, model_size, num_speakers, whisper, raw_segments, f) ==
    IF audio_path \notin exists THEN NotFound ELSE
    Only({
      Only({
        Only({ [ret |-> Some([speakers |-> dz.speakers,
                         segments |-> _merge(tr.ret.segments, dz.turns),
                         duration |-> tr.ret.duration,
                         language |-> tr.ret.language,
                         cached   |-> tr.ret.cached]),
                parts |-> [NoParts EXCEPT !.t = Some(tr.ret),
                                          !.d = Some([speakers |-> dz.speakers,
                                                      turns |-> dz.turns])],
                transcriptions |-> tr.transcriptions, notes |-> tr.notes,
                diarization |-> dz.diarization,
                invoked |-> tr.invoked \cup dz.invoked,
                tcommitted |-> tr.committed, dcommitted |-> dz.committed,
                raised |-> FALSE, error |-> "none",
                accessed |-> AccessedAfter(tr, dz.committed)]
               : dz \in { IF stored_diarization # None
                          THEN [speakers |-> stored_diarization[1].speakers,
                                turns |-> stored_diarization[1].turns,
                                diarization |-> diarization,
                                invoked |-> {}, committed |-> FALSE]
                          ELSE Only({ [speakers |-> SortedSpeakers(TurnsOf(raw_segments)),
                                       turns |-> TurnsOf(raw_segments),
                                       diarization |-> w.diarization,
                                       invoked |-> {"diarizer"},
                                       committed |-> w.committed]
                                      : w \in {set_diarization(
                                                 hash_audio_file(audio_path),
                                                 SortedSpeakers(TurnsOf(raw_segments)),
                                                 TurnsOf(raw_segments),
                                                 num_speakers, f.dset)} }) } })
        : stored_diarization \in {get_diarization(hash_audio_file(audio_path),
                                                  num_speakers, f.dget)} })
      : tr \in {transcribe_audio(audio_path, model_size, whisper, f)} })

\* ------------------------------------------------------------------------
\* The calls as steps
\* ------------------------------------------------------------------------

NoCall ==
    [op |-> "init", path |-> <<>>, model_size |-> <<>>, content |-> <<>>,
     hint |-> None, arg |-> None, ret |-> None, fault |-> "none",
     faults |-> NoFaults, committed |-> FALSE, raised |-> FALSE,
     error |-> "none", accessed |-> {},
     invoked |-> {}, parts |-> NoParts, used |-> {}, ranked |-> <<>>]

\* no generator has been created
NoStream == [at |-> "none", path |-> <<>>, model_size |-> <<>>, stored |-> None]

NothingFilled == [t |-> {}, e |-> {}, d |-> {}]

\* the threads of the concurrent callers
Threads == {1, 2, 3}

Idle ==
    [at |-> "idle", op |-> "none", path |-> <<>>, model_size |-> <<>>,
     result |-> None, md |-> None, ret |-> None, wrote |-> None]

\* a call made while no other call is in progress runs from start to end:
\* the clock advances and no thread is left inside a call
Tick == /\ now < MaxOps
        /\ now' = now + 1
        /\ UNCHANGED <<pc, lock, calls>>

\* the file at a path is replaced (another recording is saved under the name)
WriteFile(p, c) ==
    /\ Tick
    /\ files[p] # c \/ p \notin exists
    /\ files' = [files EXCEPT ![p] = c]
    /\ exists' = exists \cup {p}
    /\ last' = [NoCall EXCEPT !.op = "write_file", !.path = p, !.content = c]
    /\ UNCHANGED <<stream, transcriptions, embeddings, diarization, notes, puts, filled>>

\* the file at a path is deleted
RemoveFile(p) ==
    /\ Tick
    /\ p \in exists
    /\ exists' = exists \ {p}
    /\ last' = [NoCall EXCEPT !.op = "remove_file", !.path = p]
    /\ UNCHANGED <<files, stream, transcriptions, embeddings, diarization, notes,
                   puts, filled>>

Set(p, v, t, fault) ==
    /\ Tick
    /\ \E r \in {set(p, v, t, fault)} :
        /\ transcriptions' = r.transcriptions
        /\ notes' = r.notes
        /\ puts' = IF r.committed
                   THEN [puts EXCEPT ![<<files[p], v>>] =
                            Some([arg |-> t, path |-> p,
                                  n |-> IF @ = None THEN 1 ELSE @[1].n + 1])]
                   ELSE puts
        /\ last' = [NoCall EXCEPT !.op = "set", !.path = p, !.model_size = v,
                                  !.content = files[p], !.arg = Some(t),
                                  !.fault = fault,
                                  !.committed = r.committed]
        /\ UNCHANGED <<files, exists, stream, embeddings, diarization, filled>>

Get(p, v, fault) ==
    /\ Tick
    /\ last' = [NoCall EXCEPT !.op = "get", !.path = p, !.model_size = v,
                              !.content = files[p], !.fault = fault,
                              !.ret = get(p, v, fault)]
    /\ UNCHANGED <<files, exists, stream, transcriptions, embeddings, diarization, notes, puts,
                   filled>>

Clear(failing) ==
    /\ Tick
    /\ \E r \in {clear(failing)} :
        /\ transcriptions' = {}
        /\ embeddings' = {}
        /\ diarization' = {}
        /\ notes' = r.notes
        /\ puts' = [k \in Keys |-> None]
        /\ filled' = NothingFilled
        /\ last' = [NoCall EXCEPT !.op = "clear", !.ret = Some(r.count)]
        /\ UNCHANGED <<files, exists, stream>>

\* the history of committed puts after a handler's set()
PutsAfter(p, v, t, committed) ==
    IF committed
    THEN [puts EXCEPT ![<<files[p], v>>] =
             Some([arg |-> t, path |-> p,
                   n |-> IF @ = None THEN 1 ELSE @[1].n + 1])]
    ELSE puts

\* the history of computed and written results after a handler
FilledAfter(p, v, hint, invoked, tcommitted, ecommitted, dcommitted) ==
    [t |-> IF "whisper" \in invoked /\ tcommitted
           THEN filled.t \cup {<<files[p], v>>} ELSE filled.t,
     e |-> IF "embed_segments" \in invoked /\ ecommitted
           THEN filled.e \cup {files[p]} ELSE filled.e,
     d |-> IF "diarizer" \in invoked /\ dcommitted
           THEN filled.d \cup {<<files[p], hint>>} ELSE filled.d]

TranscribeAudio(p, v, f) ==
    /\ Tick
    /\ \E r \in {transcribe_audio(p, v, WhisperFor(files[p], v), f)} :
        /\ transcriptions' = r.transcriptions
        /\ notes' = r.notes
        /\ puts' = PutsAfter(p, v, ResultOf(WhisperFor(files[p], v)), r.committed)
        /\ filled' = FilledAfter(p, v, None, r.invoked, r.committed, FALSE, FALSE)
        /\ last' = [NoCall EXCEPT !.op = "transcribe_audio", !.path = p,
                                  !.model_size = v, !.content = files[p],
                                  !.faults = f,
                                  !.ret = IF r.raised THEN None ELSE Some(r.ret),
                                  !.parts = [NoParts EXCEPT !.t =
                                               IF r.raised THEN None
                                               ELSE Some(r.ret)],
                                  !.invoked = r.invoked,
                                  !.committed = r.committed,
                                  !.raised = r.raised, !.error = r.error,
                                  !.accessed = r.accessed]
        /\ UNCHANGED <<files, exists, stream, embeddings, diarization>>

\* the keywords of the recordings
SpokenKeywordLists == {<<>>, <<"hi">>, <<"a", "b">>}

\* the effect of a call that begins with transcribe_audio, as op
AfterTranscribe(op, p, v, arg, r) ==
    /\ transcriptions' = r.transcriptions
    /\ notes' = r.notes
    /\ puts' = PutsAfter(p, v, ResultOf(WhisperFor(files[p], v)), r.committed)
    /\ filled' = FilledAfter(p, v, None, r.invoked, r.committed, FALSE, FALSE)
    /\ last' = [NoCall EXCEPT !.op = op, !.path = p, !.model_size = v,
                              !.content = files[p], !.arg = Some(arg),
                              !.ret = IF r.raised THEN None ELSE Some(r.ret),
                              !.invoked = r.invoked, !.committed = r.committed,
                              !.raised = r.raised, !.error = r.error,
                              !.accessed = r.accessed]
    /\ UNCHANGED <<files, exists, stream, embeddings, diarization>>

SearchAudio(p, keywords, v) ==
    /\ Tick
    /\ \E r \in {search_audio(p, KeywordChars(keywords), v,
                              WhisperFor(files[p], v), NoFaults)} :
          AfterTranscribe("search_audio", p, v, [keywords |-> keywords], r)

SearchAudioFull(p, keywords, v) ==
    /\ Tick
    /\ \E r \in {search_audio_full(p, KeywordChars(keywords), v,
                                   WhisperFor(files[p], v), NoFaults)} :
          AfterTranscribe("search_audio_full", p, v, [keywords |-> keywords], r)

SearchAudioProximity(p, keyword1, keyword2, max_distance, v) ==
    /\ Tick
    /\ \E r \in {search_audio_proximity(p, CharsOf(keyword1), CharsOf(keyword2),
                                        max_distance, v,
                                        WhisperFor(files[p], v), NoFaults)} :
          AfterTranscribe("search_audio_proximity", p, v,
                          [keyword1 |-> keyword1, keyword2 |-> keyword2,
                           max_distance |-> max_distance], r)

\* the functions of core.py that take use_cache and return when the
\* transcription is made
UseCacheOps == {"transcribe_audio", "search_audio", "search_audio_full",
                "search_audio_proximity"}

\* transcribe_audio, search_audio, search_audio_full or
\* search_audio_proximity (of keywords[1] and keywords[2]) is called with
\* use_cache
CallWithUseCache(op, use_cache, p, v, keywords, max_distance) ==
    /\ Tick
    /\ op = "search_audio_proximity" => Len(keywords) = 2
    /\ \E tr \in {transcribe_audio_with(use_cache, p, v, WhisperFor(files[p], v))} :
          AfterTranscribe(op, p, v,
                          [use_cache |-> use_cache, keywords |-> keywords,
                           max_distance |-> max_distance, events |-> <<>>],
                          IF tr.raised THEN tr
                          ELSE [tr EXCEPT !.ret =
                                  SearchResultOf(op, @, KeywordChars(keywords),
                                                 max_distance)])

\* "for progress in transcribe_audio_streaming(p, v, use_cache)": the
\* generator is run to its end
RunTranscribeAudioStreaming(use_cache, p, v) ==
    /\ Tick
    /\ \E r \in {transcribe_audio_streaming(use_cache, p, v, WhisperFor(files[p], v))} :
          AfterTranscribe("transcribe_audio_streaming", p, v,
                          [use_cache |-> use_cache, keywords |-> <<>>,
                           max_distance |-> 0, events |-> r.events], r)

\* "for progress, matches in search_audio_streaming(p, keywords, v,
\* use_cache=False)": the generator is run to its end
RunSearchAudioStreaming(p, v, keywords) ==
    /\ Tick
    /\ \E r \in {search_audio_streaming(p, KeywordChars(keywords), v,
                                        WhisperFor(files[p], v))} :
          AfterTranscribe("search_audio_streaming", p, v,
                          [use_cache |-> FALSE, keywords |-> keywords,
                           max_distance |-> 0, events |-> r.events], r)

\* transcribe_audio_streaming(audio_path, model_size) is called: a generator
\* is returned, none of its body has run
TranscribeAudioStreaming(p, v) ==
    /\ Tick
    /\ stream' = [at |-> "created", path |-> p, model_size |-> v, stored |-> None]
    /\ last' = [NoCall EXCEPT !.op = "transcribe_audio_streaming", !.path = p,
                              !.model_size = v, !.content = files[p],
                              !.ret = Some([generator |-> "created"])]
    /\ UNCHANGED <<files, exists, transcriptions, embeddings, diarization, notes,
                   puts, filled>>

\* next() on the generator
StreamNext ==
    /\ stream.at \notin {"none", "closed"}
    /\ \E r \in {stream_next(WhisperFor(files[stream.path], stream.model_size))} :
        /\ stream' = [stream EXCEPT !.at = r.at, !.stored = r.stored]
        /\ transcriptions' = r.transcriptions
        /\ notes' = r.notes
        /\ puts' = PutsAfter(stream.path, stream.model_size,
                             ResultOf(WhisperFor(files[stream.path],
                                                 stream.model_size)),
                             r.committed)
        /\ filled' = FilledAfter(stream.path, stream.model_size, None, r.invoked,
                                 r.committed, FALSE, FALSE)
        /\ last' = [NoCall EXCEPT !.op = "next", !.path = stream.path,
                                  !.model_size = stream.model_size,
                                  !.content = files[stream.path],
                                  !.arg = r.yielded, !.ret = r.ret,
                                  !.invoked = r.invoked,
                                  !.committed = r.committed,
                                  !.raised = r.raised, !.error = r.error,
                                  !.accessed = r.accessed]
        /\ UNCHANGED <<files, exists, embeddings, diarization, now, pc, lock,
                       calls>>

\* the segments and vectors a search or segmentation worked with
UsedBy(parts) ==
    IF parts.e = None THEN {}
    ELSE {[segments |-> parts.t[1].segments, vectors |-> parts.e]}

DeepSearch(p, query, v, top_k, dedup_seconds, f) ==
    /\ Tick
    /\ \E r \in deep_search(p, query, v, top_k, dedup_seconds,
                              WhisperFor(files[p], v), f) :
        /\ transcriptions' = r.transcriptions
        /\ notes' = r.notes
        /\ embeddings' = r.embeddings
        /\ puts' = PutsAfter(p, v, ResultOf(WhisperFor(files[p], v)), r.tcommitted)
        /\ filled' = FilledAfter(p, v, None, r.invoked, r.tcommitted,
                                 r.ecommitted, FALSE)
        /\ last' = [NoCall EXCEPT !.op = "deep_search", !.path = p,
                                  !.model_size = v, !.content = files[p],
                                  !.arg = Some([query |-> query, top_k |-> top_k,
                                                dedup_seconds |-> dedup_seconds]),
                                  !.faults = f, !.ret = r.ret,
                                  !.parts = r.parts, !.used = UsedBy(r.parts),
                                  !.ranked = r.ranked,
                                  !.invoked = r.invoked, !.raised = r.raised,
                                  !.error = r.error, !.accessed = r.accessed]
        /\ UNCHANGED <<files, exists, stream, diarization>>

DetectChapters(p, v, sensitivity, f) ==
    /\ Tick
    /\ \E r \in {detect_chapters(p, v, sensitivity,
                                 WhisperFor(files[p], v), f)} :
        /\ transcriptions' = r.transcriptions
        /\ notes' = r.notes
        /\ embeddings' = r.embeddings
        /\ puts' = PutsAfter(p, v, ResultOf(WhisperFor(files[p], v)), r.tcommitted)
        /\ filled' = FilledAfter(p, v, None, r.invoked, r.tcommitted,
                                 r.ecommitted, FALSE)
        /\ last' = [NoCall EXCEPT !.op = "detect_chapters", !.path = p,
                                  !.model_size = v, !.content = files[p],
                                  !.arg = Some([sensitivity |-> sensitivity]),
                                  !.faults = f, !.ret = r.ret,
                                  !.parts = r.parts, !.used = UsedBy(r.parts),
                                  !.invoked = r.invoked, !.raised = r.raised,
                                  !.error = r.error, !.accessed = r.accessed]
        /\ UNCHANGED <<files, exists, stream, diarization>>

SearchMemory(query, top_k, dedup_seconds, pick, order) ==
    /\ Tick
    /\ \E r \in search_memory(query, top_k, dedup_seconds, pick, order) :
        /\ embeddings' = r.embeddings
        /\ filled' = [filled EXCEPT !.e = @ \cup
                        {c \in FileContents :
                            HexDigest(ReadChunks(c, <<>>)) \in r.computed}]
        /\ last' = [NoCall EXCEPT !.op = "search_memory",
                                  !.arg = Some([query |-> query, top_k |-> top_k,
                                                dedup_seconds |-> dedup_seconds]),
                                  !.ret = IF r.raised THEN None
                                          ELSE Some([results |-> r.results,
                                                     candidates |-> r.candidates,
                                                     total_segments |-> r.total_segments,
                                                     files_searched |-> r.files_searched]),
                                  !.raised = r.raised, !.error = r.error,
                                  !.ranked = r.ranked,
                                  !.used = {[segments |-> u.segments,
                                             vectors |-> u.vectors]
                                            : u \in {x \in r.used : x.segments # <<>>}},
                                  !.invoked = r.invoked]
        /\ UNCHANGED <<files, exists, stream, transcriptions, diarization, notes, puts>>

IdentifySpeakers(p, v, num_speakers, f) ==
    /\ Tick
    /\ \E r \in {identify_speakers(p, v, num_speakers, WhisperFor(files[p], v),
                                   DiarizeFor(files[p], num_speakers), f)} :
        /\ transcriptions' = r.transcriptions
        /\ notes' = r.notes
        /\ diarization' = r.diarization
        /\ puts' = PutsAfter(p, v, ResultOf(WhisperFor(files[p], v)), r.tcommitted)
        /\ filled' = FilledAfter(p, v, num_speakers, r.invoked, r.tcommitted,
                                 FALSE, r.dcommitted)
        /\ last' = [NoCall EXCEPT !.op = "identify_speakers", !.path = p,
                                  !.model_size = v, !.content = files[p],
                                  !.hint = num_speakers,
                                  !.faults = f, !.ret = r.ret,
                                  !.parts = r.parts, !.invoked = r.invoked,
                                  !.raised = r.raised, !.error = r.error,
                                  !.accessed = r.accessed]
        /\ UNCHANGED <<files, exists, stream, embeddings>>

\* SHA-256 of the bytes, for calls that are handed the identity
HashOf(content) == HexDigest(ReadChunks(content, <<>>))

EmbedFaultsOfSet == {"none", "serialize", "db"}

LookupFaults == {"none", "db"}

GetEmbeddings(c, fault) ==
    /\ Tick
    /\ last' = [NoCall EXCEPT !.op = "get_embeddings", !.content = c,
                              !.fault = fault,
                              !.ret = get_embeddings(HashOf(c), EMBEDDING_MODEL, fault)]
    /\ UNCHANGED <<files, exists, stream, transcriptions, embeddings, diarization, notes, puts,
                   filled>>

SetEmbeddings(c, texts, fault) ==
    /\ Tick
    /\ \E r \in {set_embeddings(HashOf(c), EMBEDDING_MODEL, Encode(texts),
                                Len(texts), 2, fault)} :
        /\ embeddings' = r.embeddings
        /\ last' = [NoCall EXCEPT !.op = "set_embeddings", !.content = c,
                                  !.fault = fault, !.arg = Some(Encode(texts)),
                                  !.committed = r.committed,
                                  !.raised = r.raised]
    /\ UNCHANGED <<files, exists, stream, transcriptions, diarization, notes, puts, filled>>

GetDiarization(c, num_speakers, fault) ==
    /\ Tick
    /\ last' = [NoCall EXCEPT !.op = "get_diarization", !.content = c,
                              !.hint = num_speakers, !.fault = fault,
                              !.ret = get_diarization(HashOf(c), num_speakers, fault)]
    /\ UNCHANGED <<files, exists, stream, transcriptions, embeddings, diarization, notes, puts,
                   filled>>

SetDiarization(c, num_speakers, turns, fault) ==
    /\ Tick
    /\ \E r \in {set_diarization(HashOf(c), SortedSpeakers(turns), turns,
                                 num_speakers, fault)} :
        /\ diarization' = r.diarization
        /\ last' = [NoCall EXCEPT !.op = "set_diarization", !.content = c,
                                  !.hint = num_speakers, !.fault = fault,
                                  !.arg = Some(turns),
                                  !.committed = r.committed]
    /\ UNCHANGED <<files, exists, stream, transcriptions, embeddings, notes, puts, filled>>

\* ------------------------------------------------------------------------
\* Concurrent callers: each step of a call is one step of its thread
\* ------------------------------------------------------------------------

\* the store operations that open the database inside "with self._lock"
LockedOps == {"get", "set", "clear", "get_by_title", "get_embeddings",
              "set_embeddings", "get_diarization", "set_diarization"}

\* the store operations that open the database without taking the lock
UnlockedOps == {"stats", "list_all", "get_all_with_embeddings"}

\* the threads inside a storage access
Inside == {t \in Threads : pc[t].at \in {"in", "in_insert"}}

\* stats(): the counts it returns
stats ==
    [entries             |-> Cardinality(transcriptions),
     embedding_entries   |-> Cardinality(embeddings),
     diarization_entries |-> Cardinality(diarization)]

\* list_all(): the entries, as a set
list_all ==
    {[title |-> r.title, duration |-> r.duration, model_size |-> r.model_size,
      md_path |-> r.md_path, file_path |-> r.file_path] : r \in transcriptions}

\* a thread starts a call of a store read and enters its storage access;
\* the operations of LockedOps wait for the lock and take it
EnterRead(t, op, p, v) ==
    /\ calls < MaxCalls
    /\ pc[t].at \in {"idle", "done"}
    /\ op \in LockedOps => lock = 0
    /\ lock' = IF op \in LockedOps THEN t ELSE lock
    /\ pc' = [pc EXCEPT ![t] = [@ EXCEPT !.at = "in", !.op = op, !.path = p,
                                         !.model_size = v, !.ret = None]]
    /\ calls' = calls + 1
    /\ UNCHANGED <<files, exists, stream, transcriptions, embeddings, diarization, notes, now,
                   last, puts, filled>>

\* the read happens and the storage access ends
LeaveRead(t) ==
    /\ pc[t].at = "in"
    /\ pc[t].op \in {"get", "stats", "list_all", "get_all_with_embeddings"}
    /\ lock' = IF pc[t].op \in LockedOps THEN 0 ELSE lock
    /\ pc' = [pc EXCEPT ![t] =
                [@ EXCEPT !.at = "done",
                          !.ret = CASE pc[t].op = "get" ->
                                         get(pc[t].path, pc[t].model_size, "none")
                                    [] pc[t].op = "stats" -> Some(stats)
                                    [] pc[t].op = "list_all" -> Some(list_all)
                                    [] OTHER ->
                                         Some({JoinedEntry(r) : r \in transcriptions})]]
    /\ UNCHANGED <<files, exists, stream, transcriptions, embeddings, diarization, notes, now,
                   last, puts, filled, calls>>

\* transcribe_audio(): the thread enters memory.get()
EnterTranscribe(t, p, v) ==
    /\ calls < MaxCalls
    /\ pc[t].at \in {"idle", "done"}
    /\ lock = 0
    /\ lock' = t
    /\ pc' = [pc EXCEPT ![t] = [@ EXCEPT !.at = "in", !.op = "transcribe_audio",
                                         !.path = p, !.model_size = v,
                                         !.ret = None, !.result = None,
                                         !.md = None]]
    /\ calls' = calls + 1
    /\ UNCHANGED <<files, exists, stream, transcriptions, embeddings, diarization, notes, now,
                   last, puts, filled>>

\* memory.get() returns: a stored record ends the call, a miss goes on to
\* the model
LeaveLookup(t) ==
    /\ pc[t].at = "in"
    /\ pc[t].op = "transcribe_audio"
    /\ lock' = 0
    /\ \E stored \in {get(pc[t].path, pc[t].model_size, "none")} :
         pc' = [pc EXCEPT ![t] =
                  IF stored # None
                  THEN [@ EXCEPT !.at = "done", !.ret = Some(CachedResult(stored[1]))]
                  ELSE [@ EXCEPT !.at = "compute"]]
    /\ UNCHANGED <<files, exists, stream, transcriptions, embeddings, diarization, notes, now,
                   last, puts, filled, calls>>

\* model.transcribe() and the building of the result
Compute(t, whisper) ==
    /\ pc[t].at = "compute"
    /\ pc' = [pc EXCEPT ![t] = [@ EXCEPT !.at = "write_md",
                                         !.result = Some(ResultOf(whisper))]]
    /\ UNCHANGED <<files, exists, stream, transcriptions, embeddings, diarization, notes, now,
                   last, puts, filled, lock, calls>>

\* memory.set(): md_path.write_text() opens the note file for writing before
\* the lock is taken; the file is created empty, a previous note is truncated
OpenMarkdown(t) ==
    /\ pc[t].at = "write_md"
    /\ notes' = [notes EXCEPT ![MdPathOf(_title_from_path(pc[t].path))] =
                                Some(PartialNote)]
    /\ pc' = [pc EXCEPT ![t] = [@ EXCEPT !.at = "write_md_open"]]
    /\ UNCHANGED <<files, exists, stream, transcriptions, embeddings, diarization, now, last,
                   puts, filled, lock, calls>>

\* memory.set(): md_path.write_text() writes the text and closes the file
WriteMarkdown(t) ==
    /\ pc[t].at = "write_md_open"
    /\ \E md \in {_write_markdown(_title_from_path(pc[t].path), pc[t].result[1],
                                  pc[t].path, "none")} :
        /\ notes' = md.notes
        /\ pc' = [pc EXCEPT ![t] = [@ EXCEPT !.at = "insert_wait",
                                             !.md = Some(md)]]
    /\ UNCHANGED <<files, exists, stream, transcriptions, embeddings, diarization, now, last,
                   puts, filled, lock, calls>>

\* a reader of the note file of audio path p opens it and reads what is in
\* it: nothing if there is no file
ReadNote(t, p) ==
    /\ calls < MaxCalls
    /\ pc[t].at \in {"idle", "done"}
    /\ pc' = [pc EXCEPT ![t] =
                [@ EXCEPT !.at = "done", !.op = "read_note", !.path = p,
                          !.model_size = <<>>,
                          !.ret = notes[MdPathOf(_title_from_path(p))]]]
    /\ calls' = calls + 1
    /\ UNCHANGED <<files, exists, stream, transcriptions, embeddings, diarization, notes, now,
                   last, puts, filled, lock>>

\* memory.set(): the lock is taken
EnterInsert(t) ==
    /\ pc[t].at = "insert_wait"
    /\ lock = 0
    /\ lock' = t
    /\ pc' = [pc EXCEPT ![t] = [@ EXCEPT !.at = "in_insert"]]
    /\ UNCHANGED <<files, exists, stream, transcriptions, embeddings, diarization, notes, now,
                   last, puts, filled, calls>>

\* memory.set(): the row is written and committed, the lock released, and
\* transcribe_audio() returns its result
Commit(t) ==
    /\ pc[t].at = "in_insert"
    /\ transcriptions' = InsertTranscription(pc[t].path, pc[t].model_size,
                                             pc[t].result[1], pc[t].md[1])
    /\ now' = now + 1
    /\ lock' = 0
    /\ puts' = PutsAfter(pc[t].path, pc[t].model_size, pc[t].result[1], TRUE)
    /\ pc' = [pc EXCEPT ![t] =
                [@ EXCEPT !.at = "done", !.ret = pc[t].result,
                          !.wrote = Some(TranscriptionRow(pc[t].path,
                                            pc[t].model_size, pc[t].result[1],
                                            pc[t].md[1]))]]
    /\ UNCHANGED <<files, exists, stream, embeddings, diarization, notes, last, filled, calls>>

\* the faults of one store call of a handler
\* the word lists searched: a sentence, a sentence with two occurrences in
\* one second, a sentence over several seconds, and no words
WordLists ==
    { <<Word("The", 0, 2), Word("last", 3, 5), Word("year.", 6, 8)>>,
      <<Word("year", 0, 2), Word("the", 3, 5), Word("year", 6, 8), Word("last", 9, 11)>>,
      <<Word("last", 4, 6), Word("Year", 12, 14), Word("the", 15, 17), Word("year", 21, 23)>>,
      <<>> }

\* the keywords searched for
Keywords == {"year", "Year", "year.", "ea", "last", "the", "last year",
             "the year", " ", ""}

\* the keyword lists of a search
KeywordLists ==
    {<<>>} \cup {<<k>> : k \in Keywords}
    \cup {<<"the", "year">>, <<"last year", "ea">>}

\* the keywords of a proximity search
ProximityKeywords == {"year", "last", "ea", "the", "Year"}

Distances == {0 - 1, 0, 1, 2, 3}

\* the context_words a KeywordSearcher is constructed with
ContextWords == {1, DefaultContextWords}

\* the proximity_pairs of a search
ProximityPairLists ==
    { <<>>,
      << <<CharsOf("year"), CharsOf("last"), 3>> >>,
      << <<CharsOf("last"), CharsOf("year"), 2>>,
         <<CharsOf("the"), CharsOf("year"), 1>> >> }

\* what a call that reads only its arguments leaves alone
StoreVars == <<files, exists, stream, transcriptions, embeddings, diarization, notes, puts, filled>>

\* what each search returns for each of the arguments above, computed once
SearchExactResults ==
    [context_words \in ContextWords, words \in WordLists,
     keywords \in KeywordLists |->
        search_exact_with(context_words, words, KeywordChars(keywords))]

SearchProximityResults ==
    [words \in WordLists, keyword1 \in ProximityKeywords,
     keyword2 \in ProximityKeywords, max_distance \in Distances |->
        search_proximity(words, CharsOf(keyword1), CharsOf(keyword2),
                         max_distance)]

SearchResults ==
    [words \in WordLists, keywords \in KeywordLists,
     proximity_pairs \in ProximityPairLists |->
        search(words, KeywordChars(keywords), proximity_pairs)]

FindKeywordMatchesResults ==
    [words \in WordLists, keywords \in KeywordLists |->
        find_keyword_matches(words, KeywordChars(keywords))]

SearchWithProximityResults ==
    [words \in WordLists, keyword1 \in ProximityKeywords,
     keyword2 \in ProximityKeywords, max_distance \in Distances |->
        search_with_proximity(words, CharsOf(keyword1), CharsOf(keyword2),
                              max_distance)]

SearchExact(context_words, words, keywords) ==
    /\ Tick
    /\ last' = [NoCall EXCEPT
                !.op = "search_exact",
                !.arg = Some([context_words |-> context_words,
                              words |-> words, keywords |-> keywords]),
                !.ret = Some(SearchExactResults[context_words, words,
                                                keywords])]
    /\ UNCHANGED StoreVars

SearchProximity(context_words, words, keyword1, keyword2, max_distance) ==
    /\ Tick
    /\ last' = [NoCall EXCEPT
                !.op = "search_proximity",
                !.arg = Some([context_words |-> context_words,
                              words |-> words, keyword1 |-> keyword1,
                              keyword2 |-> keyword2,
                              max_distance |-> max_distance]),
                !.ret = Some(SearchProximityResults[words, keyword1, keyword2,
                                                   max_distance])]
    /\ UNCHANGED StoreVars

Search(words, keywords, proximity_pairs) ==
    /\ Tick
    /\ last' = [NoCall EXCEPT
                !.op = "search",
                !.arg = Some([words |-> words, keywords |-> keywords,
                              proximity_pairs |-> proximity_pairs]),
                !.ret = Some(SearchResults[words, keywords, proximity_pairs])]
    /\ UNCHANGED StoreVars

FindKeywordMatches(words, keywords) ==
    /\ Tick
    /\ last' = [NoCall EXCEPT
                !.op = "find_keyword_matches",
                !.arg = Some([words |-> words, keywords |-> keywords,
                              proximity_pairs |-> <<>>]),
                !.ret = Some(FindKeywordMatchesResults[words, keywords])]
    /\ UNCHANGED StoreVars

SearchWithProximity(words, keyword1, keyword2, max_distance) ==
    /\ Tick
    /\ last' = [NoCall EXCEPT
                !.op = "search_with_proximity",
                !.arg = Some([words |-> words, keyword1 |-> keyword1,
                              keyword2 |-> keyword2,
                              max_distance |-> max_distance]),
                !.ret = Some(SearchWithProximityResults[words, keyword1,
                                                       keyword2, max_distance])]
    /\ UNCHANGED StoreVars

TranscribeFaults ==
    {NoFaults, [NoFaults EXCEPT !.tget = "db"], [NoFaults EXCEPT !.tset = "db"]}

EmbedFaults ==
    {NoFaults, [NoFaults EXCEPT !.eget = "db"], [NoFaults EXCEPT !.eset = "db"]}

DiarizeFaults ==
    {NoFaults, [NoFaults EXCEPT !.dget = "db"], [NoFaults EXCEPT !.dset = "db"]}

\* three copies of one recording, nothing stored yet
Init ==
    /\ files = [p \in Paths |-> <<1>>]
    /\ exists = Paths
    /\ stream = NoStream
    /\ transcriptions = {}
    /\ embeddings = {}
    /\ diarization = {}
    /\ notes = [m \in MdPaths |-> None]
    /\ now = 0
    /\ last = NoCall
    /\ puts = [k \in Keys |-> None]
    /\ filled = NothingFilled
    /\ pc = [t \in Threads |-> Idle]
    /\ lock = 0
    /\ calls = 0

Next ==
    \/ \E p \in Paths, c \in FileContents : WriteFile(p, c)
    \/ \E p \in Paths, v \in Variants, t \in Transcriptions : Set(p, v, t, "none")
    \/ \E p \in Paths, v \in Variants : Get(p, v, "none")
    \/ Clear({})

Spec == Init /\ [][Next]_vars

\* the get-or-compute callers, each with at most one failing store call
CacheNext ==
    \/ \E v \in Variants, f \in TranscribeFaults : TranscribeAudio(PathXA, v, f)
    \/ \E v \in Variants, f \in EmbedFaults : DeepSearch(PathYA, "hi", v, DefaultTopK, 0, f)
    \/ \E n \in Hints, f \in DiarizeFaults :
          IdentifySpeakers(PathYA, <<"t">>, n, f)
    \/ \E c \in FileContents : WriteFile(PathYA, c)
    \/ Clear({})

CacheSpec == Init /\ [][CacheNext]_vars

\* the store's lookups and writes, with the failures their try blocks meet
FaultNext ==
    \/ \E t \in Transcriptions, fault \in SetFaults :
          Set(PathXA, <<"t">>, t, fault)
    \/ \E fault \in GetFaults : Get(PathXA, <<"t">>, fault)
    \/ \E failing \in {{}, MdPaths} : Clear(failing)
    \/ \E fault \in LookupFaults : GetEmbeddings(<<1>>, fault)
    \/ \E fault \in EmbedFaultsOfSet :
          SetEmbeddings(<<1>>, <<"hi", "yo">>, fault)
    \/ \E fault \in LookupFaults : GetDiarization(<<1>>, None, fault)
    \/ \E fault \in LookupFaults :
          SetDiarization(<<1>>, None, TurnsOf(DiarizeFor(<<1>>, None)), fault)

FaultSpec == Init /\ [][FaultNext]_vars

\* the threads that call transcribe_audio, and the thread that reads
Racers == {1, 2}

Readers == {3}

\* callers in three threads: transcribe_audio of two copies of a recording,
\* and reads of the store
ConcNext ==
    \/ \E t \in Racers, p \in {PathXA, PathXB} : EnterTranscribe(t, p, <<"t">>)
    \/ \E t \in Threads : LeaveLookup(t)
    \/ \E t \in Threads, w \in WhisperOutputs : Compute(t, w)
    \/ \E t \in Threads : OpenMarkdown(t)
    \/ \E t \in Threads : WriteMarkdown(t)
    \/ \E t \in Threads : EnterInsert(t)
    \/ \E t \in Threads : Commit(t)
    \/ \E t \in Readers, op \in {"get", "stats", "list_all",
                                   "get_all_with_embeddings"} :
          EnterRead(t, op, PathXA, <<"t">>)
    \/ \E t \in Readers : ReadNote(t, PathXA)
    \/ \E t \in Threads : LeaveRead(t)

ConcSpec == Init /\ [][ConcNext]_vars

\* ------------------------------------------------------------------------
\* The global instances: get_transcription_memory() and ModelCache
\* ------------------------------------------------------------------------

\* f"{model_size}:{device}:{compute_type}" of get(model_size)
ModelKey(model_size) == <<model_size, ":", "auto", ":", "auto">>

ModelKeys == {ModelKey(v) : v \in Variants}

\* the globals of a process that has imported the module: no
\* TranscriptionMemory and no ModelCache has been constructed. memories and
\* caches count the objects constructed, loads the WhisperModel objects
\* constructed since the last clear() and clears the calls of clear();
\* _models maps a key to its model, a WhisperModel object being named by
\* its key, the clears before it and its number among the loads of the key
NoGlobals ==
    [_transcription_memory |-> None, memories |-> 0,
     _instance |-> None, caches |-> 0, _lock |-> 0, _model_lock |-> 0,
     _models |-> [k \in ModelKeys |-> None],
     loads |-> [k \in ModelKeys |-> 0], clears |-> 0]

\* the globals of the process
Process == last.ret[1]

\* what a step of a thread on the globals leaves alone
SingletonFrame ==
    UNCHANGED <<files, exists, stream, transcriptions, embeddings, diarization,
                notes, now, puts, filled, lock>>

\* a thread starts a call
Start(t, op) ==
    /\ calls < MaxCalls
    /\ pc[t].at \in {"idle", "done"}
    /\ calls' = calls + 1

\* get_transcription_memory(): "if _transcription_memory is None"
GtmCheck(t) ==
    /\ Start(t, "get_transcription_memory")
    /\ pc' = [pc EXCEPT ![t] =
                [Idle EXCEPT !.op = "get_transcription_memory",
                             !.at = IF Process._transcription_memory = None
                                    THEN "construct" ELSE "return"]]
    /\ UNCHANGED last
    /\ SingletonFrame

\* "_transcription_memory = TranscriptionMemory(memory_dir)"
GtmConstruct(t) ==
    /\ pc[t].at = "construct"
    /\ pc[t].op = "get_transcription_memory"
    /\ last' = [last EXCEPT !.ret = Some([Process EXCEPT
                    !.memories = @ + 1,
                    !._transcription_memory = Some(Process.memories + 1)])]
    /\ pc' = [pc EXCEPT ![t] = [@ EXCEPT !.at = "return"]]
    /\ UNCHANGED calls
    /\ SingletonFrame

\* "return _transcription_memory"
GtmReturn(t) ==
    /\ pc[t].at = "return"
    /\ pc[t].op = "get_transcription_memory"
    /\ pc' = [pc EXCEPT ![t] = [@ EXCEPT !.at = "done",
                                         !.ret = Process._transcription_memory]]
    /\ UNCHANGED <<last, calls>>
    /\ SingletonFrame

\* ModelCache(): the first "if cls._instance is None" of __new__
NewCheck(t) ==
    /\ Start(t, "ModelCache")
    /\ pc' = [pc EXCEPT ![t] =
                [Idle EXCEPT !.op = "ModelCache",
                             !.at = IF Process._instance = None
                                    THEN "wait" ELSE "return"]]
    /\ UNCHANGED last
    /\ SingletonFrame

\* "with cls._lock: if cls._instance is None: cls._instance =
\* super().__new__(cls)": the object is bound to the class before it has
\* its attributes
New(t) ==
    /\ pc[t].at = "wait"
    /\ pc[t].op = "ModelCache"
    /\ Process._lock = 0
    /\ IF Process._instance = None
       THEN /\ last' = [last EXCEPT !.ret = Some([Process EXCEPT
                           !._lock = t, !.caches = @ + 1,
                           !._instance = Some([id |-> Process.caches + 1,
                                               _models |-> FALSE,
                                               _model_lock |-> FALSE])])]
            /\ pc' = [pc EXCEPT ![t] = [@ EXCEPT !.at = "models"]]
       ELSE /\ UNCHANGED last
            /\ pc' = [pc EXCEPT ![t] = [@ EXCEPT !.at = "return"]]
    /\ UNCHANGED calls
    /\ SingletonFrame

\* "cls._instance._models = {}"
NewModels(t) ==
    /\ pc[t].at = "models"
    /\ last' = [last EXCEPT !.ret = Some([Process EXCEPT
                    !._instance = Some([@[1] EXCEPT !._models = TRUE]),
                    !._models = [k \in ModelKeys |-> None],
                    !.loads = [k \in ModelKeys |-> 0]])]
    /\ pc' = [pc EXCEPT ![t] = [@ EXCEPT !.at = "model_lock"]]
    /\ UNCHANGED calls
    /\ SingletonFrame

\* "cls._instance._model_lock = threading.Lock()" and the end of "with
\* cls._lock"
NewModelLock(t) ==
    /\ pc[t].at = "model_lock"
    /\ last' = [last EXCEPT !.ret = Some([Process EXCEPT
                    !._instance = Some([@[1] EXCEPT !._model_lock = TRUE]),
                    !._model_lock = 0, !._lock = 0])]
    /\ pc' = [pc EXCEPT ![t] = [@ EXCEPT !.at = "return"]]
    /\ UNCHANGED calls
    /\ SingletonFrame

\* "return cls._instance"
NewReturn(t) ==
    /\ pc[t].at = "return"
    /\ pc[t].op = "ModelCache"
    /\ pc' = [pc EXCEPT ![t] = [@ EXCEPT !.at = "done",
                                         !.ret = Some(Process._instance[1].id)]]
    /\ UNCHANGED <<last, calls>>
    /\ SingletonFrame

\* the threads that hold the ModelCache
Holders == {t \in Threads : pc[t].at = "done" /\ pc[t].op # "get_transcription_memory"}

\* get(model_size), clear(): "with self._model_lock" raises AttributeError
\* (kept in result) while the instance has no _model_lock, else waits for
\* the lock
EnterCache(t, op, model_size) ==
    /\ t \in Holders
    /\ Start(t, op)
    /\ IF ~Process._instance[1]._model_lock
       THEN /\ pc' = [pc EXCEPT ![t] = [@ EXCEPT !.op = op,
                                                 !.model_size = model_size,
                                                 !.ret = None,
                                                 !.result = Some("AttributeError")]]
            /\ UNCHANGED last
       ELSE /\ Process._model_lock = 0
            /\ last' = [last EXCEPT !.ret = Some([Process EXCEPT !._model_lock = t])]
            /\ pc' = [pc EXCEPT ![t] = [@ EXCEPT !.at = "in", !.op = op,
                                                 !.model_size = model_size,
                                                 !.ret = None, !.result = None]]
    /\ SingletonFrame

\* the body of get(): the model is loaded if its key is not in _models
GetModel(t) ==
    /\ pc[t].at = "in"
    /\ pc[t].op = "get_model"
    /\ \E cache_key \in {ModelKey(pc[t].model_size)} :
         IF Process._models[cache_key] = None
         THEN \E model \in {<<cache_key, Process.clears,
                                Process.loads[cache_key] + 1>>} :
              /\ last' = [last EXCEPT !.ret = Some([Process EXCEPT
                             !._models[cache_key] = Some(model),
                             !.loads[cache_key] = @ + 1,
                             !._model_lock = 0])]
              /\ pc' = [pc EXCEPT ![t] = [@ EXCEPT !.at = "done",
                                                   !.ret = Some(model)]]
         ELSE /\ last' = [last EXCEPT !.ret = Some([Process EXCEPT !._model_lock = 0])]
              /\ pc' = [pc EXCEPT ![t] = [@ EXCEPT !.at = "done",
                                                   !.ret = Process._models[cache_key]]]
    /\ UNCHANGED calls
    /\ SingletonFrame

\* the body of clear(): "self._models.clear()"
ClearModels(t) ==
    /\ pc[t].at = "in"
    /\ pc[t].op = "clear_models"
    /\ last' = [last EXCEPT !.ret = Some([Process EXCEPT
                    !._models = [k \in ModelKeys |-> None],
                    !.loads = [k \in ModelKeys |-> 0],
                    !.clears = @ + 1,
                    !._model_lock = 0])]
    /\ pc' = [pc EXCEPT ![t] = [@ EXCEPT !.at = "done"]]
    /\ UNCHANGED calls
    /\ SingletonFrame

\* loaded_models(): the keys of _models
loaded_models == {k \in ModelKeys : Process._models[k] # None}

SingletonInit ==
    /\ files = [p \in Paths |-> <<1>>]
    /\ exists = Paths
    /\ stream = NoStream
    /\ transcriptions = {}
    /\ embeddings = {}
    /\ diarization = {}
    /\ notes = [m \in MdPaths |-> None]
    /\ now = 0
    /\ last = [NoCall EXCEPT !.op = "process", !.ret = Some(NoGlobals)]
    /\ puts = [k \in Keys |-> None]
    /\ filled = NothingFilled
    /\ pc = [t \in Threads |-> Idle]
    /\ lock = 0
    /\ calls = 0

\* threads that ask for the global instances and use the model cache
SingletonNext ==
    \/ \E t \in Threads : GtmCheck(t)
    \/ \E t \in Threads : GtmConstruct(t)
    \/ \E t \in Threads : GtmReturn(t)
    \/ \E t \in Threads : NewCheck(t)
    \/ \E t \in Threads : New(t)
    \/ \E t \in Threads : NewModels(t)
    \/ \E t \in Threads : NewModelLock(t)
    \/ \E t \in Threads : NewReturn(t)
    \/ \E t \in Threads, v \in Variants : EnterCache(t, "get_model", v)
    \/ \E t \in Threads : EnterCache(t, "clear_models", <<>>)
    \/ \E t \in Threads : GetModel(t)
    \/ \E t \in Threads : ClearModels(t)

SingletonSpec == SingletonInit /\ [][SingletonNext]_vars

\* searching and segmenting what is stored
SearchNext ==
    \/ \E p \in {PathXA, PathXB}, c \in FileContents : WriteFile(p, c)
    \/ \E p \in {PathXA, PathXB}, v \in Variants : TranscribeAudio(p, v, NoFaults)
    \/ \E p \in {PathXA, PathXB}, v \in Variants, top_k \in TopKs :
          DeepSearch(p, "hi", v, top_k, 0, NoFaults)
    \/ \E p \in {PathXA, PathXB}, v \in Variants : DetectChapters(p, v, DefaultSensitivity, NoFaults)
    \/ \E pick \in GroupPicks, top_k \in TopKs :
          \E order \in Orders(DOMAIN pick) : SearchMemory("hi", top_k, 0, pick, order)
    \/ Clear({})

SearchSpec == Init /\ [][SearchNext]_vars

\* the entry points that take an audio path, on files that come and go
EntryNext ==
    \/ RemoveFile(PathXA)
    \/ \E c \in FileContents : WriteFile(PathXA, c)
    \/ TranscribeAudio(PathXA, <<"t">>, NoFaults)
    \/ \E keywords \in SpokenKeywordLists : SearchAudio(PathXA, keywords, <<"t">>)
    \/ \E keywords \in SpokenKeywordLists :
          SearchAudioFull(PathXA, keywords, <<"t">>)
    \/ \E d \in {0, 1} : SearchAudioProximity(PathXA, "hi", "yo", d, <<"t">>)
    \/ DeepSearch(PathXA, "hi", <<"t">>, DefaultTopK, 0, NoFaults)
    \/ DetectChapters(PathXA, <<"t">>, DefaultSensitivity, NoFaults)
    \/ \E n \in Hints : IdentifySpeakers(PathXA, <<"t">>, n, NoFaults)
    \/ TranscribeAudioStreaming(PathXA, <<"t">>)
    \/ StreamNext

EntrySpec == Init /\ [][EntryNext]_vars

\* the queries of a semantic search
Queries == {"", " ", "hi"}

\* the queries ranked: one in the direction of a segment, one opposite to
\* it, one the embedding model maps to the zero vector
RankQueries == {"hi", "no", "um"}

\* semantic search of one file and of the whole store
\* the dedup windows: none, and the distances between the segment starts of
\* a recording
DedupWindows == {0, 2, 4}

RankNext ==
    \/ \E p \in {PathXA, PathXB}, v \in Variants : TranscribeAudio(p, v, NoFaults)
    \/ \E p \in {PathXA, PathXB}, query \in RankQueries, top_k \in {1, DefaultTopK},
          dedup_seconds \in DedupWindows :
          DeepSearch(p, query, <<"t">>, top_k, dedup_seconds, NoFaults)
    \/ \E query \in {"hi", "no"}, pick \in GroupPicks, top_k \in {1, DefaultTopK},
          dedup_seconds \in DedupWindows :
          \E order \in Orders(DOMAIN pick) :
              SearchMemory(query, top_k, dedup_seconds, pick, order)

\* two recordings with different bytes, nothing stored yet
RankInit ==
    /\ files = [p \in Paths |-> IF p = PathXB THEN <<2>> ELSE <<1>>]
    /\ exists = Paths
    /\ stream = NoStream
    /\ transcriptions = {}
    /\ embeddings = {}
    /\ diarization = {}
    /\ notes = [m \in MdPaths |-> None]
    /\ now = 0
    /\ last = NoCall
    /\ puts = [k \in Keys |-> None]
    /\ filled = NothingFilled
    /\ pc = [t \in Threads |-> Idle]
    /\ lock = 0
    /\ calls = 0

RankSpec == RankInit /\ [][RankNext]_vars

\* the sensitivities asked for: below 0, 0, the default and 0.9
Sensitivities == {[num |-> 0 - 1, den |-> 1], [num |-> 0, den |-> 1],
                  DefaultSensitivity, [num |-> 9, den |-> 10]}

\* a recording, a recording with one utterance and one without speech
ChapterInit ==
    /\ files = [p \in Paths |-> IF p = PathXA THEN <<1>>
                                 ELSE IF p = PathYA THEN <<3>> ELSE <<4>>]
    /\ exists = Paths
    /\ stream = NoStream
    /\ transcriptions = {}
    /\ embeddings = {}
    /\ diarization = {}
    /\ notes = [m \in MdPaths |-> None]
    /\ now = 0
    /\ last = NoCall
    /\ puts = [k \in Keys |-> None]
    /\ filled = NothingFilled
    /\ pc = [t \in Threads |-> Idle]
    /\ lock = 0
    /\ calls = 0

\* chapter detection at several sensitivities
ChapterNext ==
    \/ \E p \in Paths, v \in Variants, sensitivity \in Sensitivities :
          DetectChapters(p, v, sensitivity, NoFaults)
    \/ \E p \in Paths, v \in Variants : TranscribeAudio(p, v, NoFaults)

ChapterSpec == ChapterInit /\ [][ChapterNext]_vars

\* the keywords of the calls with use_cache
UseCacheKeywords == {<<"hi">>, <<"a", "b">>}

\* calls with and without use_cache on three recordings
UseCacheNext ==
    \/ \E use_cache \in BOOLEAN, p \in Paths, v \in Variants :
          RunTranscribeAudioStreaming(use_cache, p, v)
    \/ \E p \in Paths, v \in Variants, keywords \in UseCacheKeywords :
          RunSearchAudioStreaming(p, v, keywords)
    \/ \E op \in UseCacheOps, use_cache \in BOOLEAN, p \in Paths, v \in Variants,
          keywords \in UseCacheKeywords :
          CallWithUseCache(op, use_cache, p, v, keywords, 1)

UseCacheSpec == ChapterInit /\ [][UseCacheNext]_vars

\* the texts of the segments a snippet is built from
SnippetTexts == {" ", " r", " p q", " s t u"}

\* transcriptions of one to three segments
SnippetSegments ==
    UNION { {[n \in 1..len |-> Seg(10 * (n - 1), 10 * n, texts[n])]
             : texts \in [1..len -> SnippetTexts]} : len \in 1..3 }

\* the target_words of a snippet
TargetWords == {1, 2, 3, DefaultTargetWords}

\* _build_snippet(segments, center_idx, target_words) is called
BuildSnippet(segments, center_idx, target_words) ==
    /\ Tick
    /\ last' = [NoCall EXCEPT
                !.op = "_build_snippet",
                !.arg = Some([segments |-> segments, center_idx |-> center_idx,
                              target_words |-> target_words]),
                !.ret = Some(_build_snippet(segments, center_idx, target_words))]
    /\ UNCHANGED StoreVars

SnippetNext ==
    \E segments \in SnippetSegments, target_words \in TargetWords :
        \E center_idx \in 1..Len(segments) :
            BuildSnippet(segments, center_idx, target_words)

SnippetSpec == Init /\ [][SnippetNext]_vars

\* searches with and without a request: keyword lists and queries that may
\* be empty
RequestNext ==
    \/ TranscribeAudio(PathXA, <<"t">>, NoFaults)
    \/ \E words \in WordLists, keywords \in {<<>>, <<"year">>},
          pairs \in ProximityPairLists : Search(words, keywords, pairs)
    \/ \E words \in WordLists, keywords \in {<<>>, <<"year">>} :
          FindKeywordMatches(words, keywords)
    \/ \E query \in Queries :
          DeepSearch(PathXA, query, <<"t">>, DefaultTopK, 0, NoFaults)
    \/ \E query \in Queries, pick \in GroupPicks :
          \E order \in Orders(DOMAIN pick) :
              SearchMemory(query, DefaultTopK, 0, pick, order)

RequestSpec == Init /\ [][RequestNext]_vars

\* keyword, phrase and proximity search over the words of a transcription
KeywordNext ==
    \/ \E c \in ContextWords, words \in WordLists, keywords \in KeywordLists :
          SearchExact(c, words, keywords)
    \/ \E c \in ContextWords, words \in WordLists,
          k1, k2 \in ProximityKeywords, d \in Distances :
          SearchProximity(c, words, k1, k2, d)
    \/ \E words \in WordLists, keywords \in KeywordLists,
          pairs \in ProximityPairLists : Search(words, keywords, pairs)
    \/ \E words \in WordLists, keywords \in KeywordLists :
          FindKeywordMatches(words, keywords)
    \/ \E words \in WordLists, k1, k2 \in ProximityKeywords, d \in Distances :
          SearchWithProximity(words, k1, k2, d)

KeywordSpec == Init /\ [][KeywordNext]_vars

\* ------------------------------------------------------------------------
\* Properties of the store
\* ------------------------------------------------------------------------

\* what a caller holding file p reads back for variant v
Lookup(p, v) == get(p, v, "none")

\* the five fields of a returned record that come from the stored dict
SameContent(m, t) ==
    /\ m.language = t.language
    /\ m.duration = t.duration
    /\ m.text = t.text
    /\ m.words = t.words
    /\ m.segments = t.segments

\* a set under (h, v1) leaves what get(h, v2) returns as it was, for every
\* other variant v2
C1_OtherVariantUntouched ==
    (last'.op = "set" /\ files' = files) =>
        \A p \in Paths, v \in Variants :
            (files[p] = last'.content /\ v # last'.model_size)
                => LET key == _cache_key(hash_audio_file(p), v)
                   IN  SelectTranscription(transcriptions', key) = Lookup(p, v)

\* C1: for one audio hash h and variants v1 # v2, a put under (h, v1) never
\* changes what get(h, v2) returns: the record of v2 stays the one last
\* stored under v2
C1_VariantsIndependent ==
    [][C1_OtherVariantUntouched]_vars

\* a set has just run on an audio that holds a different text under the
\* other variant
C1_Witness ==
    /\ last.op = "set"
    /\ \E v \in Variants :
          /\ v # last.model_size
          /\ puts[<<last.content, v>>] # None
          /\ puts[<<last.content, v>>][1].arg.text # last.arg[1].text

\* C2: set followed by get on the same bytes and variant returns a record
\* whose language, duration, text, words and segments equal those stored
\* by the most recent set, and the table holds at most one row per
\* (identity, variant)
C2_RoundTripLastPut ==
    /\ \A p \in Paths, v \in Variants :
          puts[<<files[p], v>>] # None =>
              \A m \in {Lookup(p, v)} :
                  /\ m # None
                  /\ SameContent(m[1], puts[<<files[p], v>>][1].arg)
    /\ \A r1, r2 \in transcriptions :
          (r1.audio_hash = r2.audio_hash /\ r1.model_size = r2.model_size)
              => r1 = r2

\* a get has returned the record of a key that was set twice, the second
\* time with another transcription
C2_Witness ==
    /\ last.op = "get"
    /\ last.ret # None
    /\ puts[<<last.content, last.model_size>>] # None
    /\ puts[<<last.content, last.model_size>>][1].n >= 2
    /\ Cardinality(transcriptions) = 1

\* C5: after clear() every get returns absent for every key stored before
\* and no note file written by an earlier set remains in the notes directory
C5_ClearIsTotal ==
    last.op = "clear" =>
        /\ \A p \in Paths, v \in Variants : Lookup(p, v) = None
        /\ embeddings = {}
        /\ diarization = {}
        /\ \A m \in MdPaths : notes[m] = None

\* C8: the key depends on the file's bytes and the variant only: get
\* through any path whose file has the bytes hashed at set time returns the
\* record (with the path used at set time), and get returns absent for a
\* file whose bytes were never stored, whatever its path
C8_KeyIsBytesNotPath ==
    \A p \in Paths, v \in Variants :
        \A m \in {Lookup(p, v)} :
            /\ (m = None) <=> (puts[<<files[p], v>>] = None)
            /\ m # None =>
                  /\ m[1].file_path = puts[<<files[p], v>>][1].path
                  /\ m[1].audio_hash = hash_audio_file(p)
            /\ \A q \in Paths : files[q] = files[p] => Lookup(q, v) = m

\* a record is read through a path other than the one it was set through,
\* while the path it was set through now has other bytes and reads absent
C8_Witness ==
    \E p, q \in Paths, v \in Variants :
        /\ p # q
        /\ files[q] # files[p]
        /\ \E m \in {Lookup(p, v)} : m # None /\ m[1].file_path = q
        /\ Lookup(q, v) = None


\* ------------------------------------------------------------------------
\* Properties of the get-or-compute callers
\* ------------------------------------------------------------------------

\* the call that was just made, for a key that was computed and written
\* before it, ran no model for that key and worked with what is stored; with
\* lookupMustSucceed only calls whose store lookup did not fail are meant
ReusesStored(lookupMustSucceed) ==
    /\ ( /\ last'.parts.t # None
         /\ <<last'.content, last'.model_size>> \in filled.t
         /\ lookupMustSucceed => last'.faults.tget = "none" )
       => /\ "whisper" \notin last'.invoked
          /\ \E m \in {SelectTranscription(transcriptions,
                          _cache_key(HashOf(last'.content), last'.model_size))} :
                /\ m # None
                /\ last'.parts.t[1] = CachedResult(m[1])
    /\ ( /\ last'.op = "deep_search"
         /\ last'.content \in filled.e
         /\ lookupMustSucceed => last'.faults.eget = "none" )
       => /\ "embed_segments" \notin last'.invoked
          /\ \E m \in {SelectEmbeddings(embeddings,
                          _embeddings_cache_key(HashOf(last'.content),
                                                EMBEDDING_MODEL))} :
                /\ m # None
                /\ last'.parts.e = Some(m[1].embeddings)
    /\ ( /\ last'.op = "identify_speakers"
         /\ <<last'.content, last'.hint>> \in filled.d
         /\ lookupMustSucceed => last'.faults.dget = "none" )
       => /\ "diarizer" \notin last'.invoked
          /\ \E m \in {SelectDiarization(diarization,
                          _diarization_cache_key(HashOf(last'.content),
                                                 last'.hint))} :
                /\ m # None
                /\ last'.parts.d = m

\* C3 as stated: once a get-or-compute call has computed and written the
\* result of a key, every later call for that key, until clear(), returns
\* the stored result and runs no external model for it (transcription,
\* segment embeddings, diarization)
C3_ReuseAlways == [][ReusesStored(FALSE)]_vars

\* C3, amended: once a get-or-compute call has computed and written the
\* result of a key, every later call for that key whose store lookup does
\* not fail, until clear(), returns the stored result and runs no external
\* model for it
C3_ReuseWhenLookupSucceeds == [][ReusesStored(TRUE)]_vars

C3_Witness ==
    /\ last.op = "deep_search"
    /\ last.invoked = {"embed_query"}
    /\ last.parts.e # None
    /\ <<last.content, last.model_size>> \in filled.t
    /\ last.content \in filled.e
    /\ filled.d # {}

\* C9: deep_search, detect_chapters and the cross-file semantic search work
\* with exactly one vector per segment of the transcription they search,
\* recomputing when the stored segment_count is another number
C9_VectorsAligned ==
    last.op \in {"deep_search", "detect_chapters", "search_memory"}
    => \A u \in last.used :
          /\ u.vectors # None
          /\ Len(u.vectors[1]) = Len(u.segments)

\* ------------------------------------------------------------------------
\* Properties of the store under failures
\* ------------------------------------------------------------------------

\* C4: a set() that fails at any step (hashing, the note, the row) returns
\* without raising and leaves every row and every note file as it was
C4_FailedPutChangesNothing ==
    [][ (last'.op = "set" /\ last'.fault # "none")
        => /\ ~last'.raised
           /\ transcriptions' = transcriptions
           /\ notes' = notes ]_vars

\* C10: no lookup or write of the store raises to its caller
C10_NeverRaises ==
    last.op \in {"get", "get_embeddings", "get_diarization",
                 "set", "set_embeddings", "set_diarization"}
    => ~last.raised


\* ------------------------------------------------------------------------
\* Properties of concurrent callers
\* ------------------------------------------------------------------------

\* C6: every storage access of a store operation happens while its thread
\* holds the store's lock, so no two are inside a storage access at once
C6_StorageAccessUnderLock ==
    /\ \A t \in Inside : lock = t
    /\ Cardinality(Inside) <= 1

\* the rows the threads have committed for a key
WrittenFor(cache_key) ==
    {pc[t].wrote[1] : t \in {u \in Threads : /\ pc[u].wrote # None
                                             /\ pc[u].wrote[1].cache_key = cache_key}}

\* the one of them that was committed last
LastCommitted(cache_key) ==
    CHOOSE r \in WrittenFor(cache_key) :
        \A q \in WrittenFor(cache_key) : q.created_at <= r.created_at

\* what get() returns for a row
RecordOf(row) == SelectTranscription({row}, row.cache_key)

\* C7: when two callers missed on the same empty slot, both ran the model
\* and both put, then after both puts the stored row is in every field the
\* row of the put that committed last; and a get running next to them
\* returns absent or the complete record of one put
C7_LastWriterWinsWhole ==
    /\ \A t1, t2 \in Threads :
         ( /\ t1 # t2
           /\ pc[t1].at = "done" /\ pc[t1].op = "transcribe_audio"
           /\ pc[t2].at = "done" /\ pc[t2].op = "transcribe_audio"
           /\ pc[t1].wrote # None /\ pc[t2].wrote # None
           /\ pc[t1].wrote[1].cache_key = pc[t2].wrote[1].cache_key
           /\ \A t \in Threads : pc[t].at \notin {"insert_wait", "in_insert"} )
         => FetchOne(transcriptions, pc[t1].wrote[1].cache_key)
              = Some(LastCommitted(pc[t1].wrote[1].cache_key))
    /\ \A t \in Threads :
         (pc[t].op = "get" /\ pc[t].at = "done" /\ pc[t].ret # None)
         => \E u \in Threads : /\ pc[u].wrote # None
                               /\ pc[t].ret = RecordOf(pc[u].wrote[1])

C7_Witness ==
    /\ pc[1].at = "done" /\ pc[1].op = "transcribe_audio"
    /\ pc[2].at = "done" /\ pc[2].op = "transcribe_audio"
    /\ pc[1].wrote # None /\ pc[2].wrote # None
    /\ pc[1].wrote[1].file_path # pc[2].wrote[1].file_path
    /\ pc[1].wrote[1].text # pc[2].wrote[1].text
    /\ pc[1].wrote[1].created_at < pc[2].wrote[1].created_at
    /\ pc[3].op = "get" /\ pc[3].at = "done"
    /\ pc[3].ret = RecordOf(pc[1].wrote[1])

\* the complete notes a put can write for the title of audio path p
CompleteNotes(p) ==
    {MarkdownOf(_title_from_path(q), transcription, q) :
        q \in {r \in Paths : _title_from_path(r) = _title_from_path(p)},
        transcription \in Transcriptions}

\* C13: a reader of the note file that runs next to put_transcription for
\* the same title sees the complete previous note or the complete new note
\* (or no file when no note was written before), never an empty or partly
\* written file
C13_ReaderSeesWholeNote ==
    \A t \in Threads :
        (pc[t].op = "read_note" /\ pc[t].at = "done" /\ pc[t].ret # None)
        => pc[t].ret[1] \in CompleteNotes(pc[t].path)

\* ------------------------------------------------------------------------
\* Properties of keyword search
\* ------------------------------------------------------------------------

\* the matching rule with both sides normalized: the cleaned keyword is a
\* substring of the cleaned word
Matches(word, keyword) ==
    Contains(clean_word(CharsOf(word)), clean_word(CharsOf(keyword)))

\* C14: every Match of search_proximity(words, k1, k2, d) is the match of a
\* pair (i, j) where word i matches k1, word j matches k2 and
\* 0 < |i-j| <= d: its time is that of word i, its confidence and snippet
\* those of the pair; no word is paired with itself and nothing is returned
\* when d <= 0
C14_ProximityMatchIsAPair ==
    last.op = "search_proximity" =>
        \A a \in {last.arg[1]} :
            /\ \A n \in 1..Len(last.ret[1]) :
                  \E i, j \in 1..Len(a.words) :
                      /\ Matches(a.words[i].word, a.keyword1)
                      /\ Matches(a.words[j].word, a.keyword2)
                      /\ i # j
                      /\ 0 < Abs(i - j) /\ Abs(i - j) <= a.max_distance
                      /\ last.ret[1][n].timestamp_seconds = a.words[i].start
                      /\ last.ret[1][n].confidence
                           = [num |-> 10 * a.max_distance - 3 * Abs(i - j),
                              den |-> 10 * a.max_distance]
                      /\ last.ret[1][n].snippet
                           = get_context(a.words, Min(i, j), 2, Max(i, j))
            /\ a.max_distance <= 0 => last.ret[1] = <<>>

\* a proximity search has returned matches although some word matches both
\* keywords
C14_Witness ==
    /\ last.op = "search_proximity"
    /\ last.ret[1] # <<>>
    /\ \E i \in 1..Len(last.arg[1].words) :
          /\ Matches(last.arg[1].words[i].word, last.arg[1].keyword1)
          /\ Matches(last.arg[1].words[i].word, last.arg[1].keyword2)

\* what search_proximity returns for the words and keywords of the last
\* call with another distance
ProximityAt(d) ==
    search_proximity(last.arg[1].words, CharsOf(last.arg[1].keyword1),
                     CharsOf(last.arg[1].keyword2), d)

\* C15 as stated: for d1 <= d2 every match returned with d1 is in the result
\* for d2 with the same label and the same time in seconds, and the number
\* of matches does not decrease
C15_MatchesKeptAtLargerDistance ==
    last.op = "search_proximity" =>
        \A d2 \in {d \in Distances : d >= last.arg[1].max_distance} :
            \A larger \in {ProximityAt(d2)} :
                /\ \A n \in 1..Len(last.ret[1]) :
                      \E m \in 1..Len(larger) :
                          /\ larger[m].keyword = last.ret[1][n].keyword
                          /\ larger[m].timestamp_seconds
                               = last.ret[1][n].timestamp_seconds
                /\ Len(last.ret[1]) <= Len(larger)

\* C15 amended: for d1 <= d2 every match returned with d1 has a match with
\* the same label and the same reported mm:ss timestamp in the result for
\* d2, and the number of matches does not decrease
C15_LabelsAndTimestampsKept ==
    last.op = "search_proximity" =>
        \A d2 \in {d \in Distances : d >= last.arg[1].max_distance} :
            \A larger \in {ProximityAt(d2)} :
                /\ \A n \in 1..Len(last.ret[1]) :
                      \E m \in 1..Len(larger) :
                          /\ larger[m].keyword = last.ret[1][n].keyword
                          /\ larger[m].timestamp = last.ret[1][n].timestamp
                /\ Len(last.ret[1]) <= Len(larger)

\* a proximity search has returned a match, and a larger distance returns
\* more matches
C15_Witness ==
    /\ last.op = "search_proximity"
    /\ last.ret[1] # <<>>
    /\ \E d2 \in Distances :
          /\ d2 > last.arg[1].max_distance
          /\ Len(ProximityAt(d2)) > Len(last.ret[1])

\* the occurrences of keyword1 with an occurrence of keyword2 in range
PairedOccurrences(a) ==
    {i \in 1..Len(a.words) :
        /\ Matches(a.words[i].word, a.keyword1)
        /\ \E j \in 1..Len(a.words) :
              /\ Matches(a.words[j].word, a.keyword2)
              /\ 0 < Abs(i - j) /\ Abs(i - j) <= a.max_distance}

\* C33: search_proximity never returns two matches with the same keyword
\* label and timestamp; an occurrence of keyword1 with several occurrences
\* of keyword2 in range is reported exactly once, and occurrences of
\* keyword1 at different start times are each reported
C33_OneMatchPerOccurrence ==
    last.op = "search_proximity" =>
        \A a \in {last.arg[1]} :
            /\ \A n, m \in 1..Len(last.ret[1]) :
                  (last.ret[1][n].keyword = last.ret[1][m].keyword
                   /\ last.ret[1][n].timestamp = last.ret[1][m].timestamp)
                  => n = m
            /\ \A i \in PairedOccurrences(a) :
                  Cardinality({n \in 1..Len(last.ret[1]) :
                                 last.ret[1][n].timestamp_seconds = a.words[i].start})
                    = 1

\* '...', the words from index lo through index hi joined by single
\* spaces, '...'
WordsBetween(words, lo, hi) ==
    <<"...">> \o JoinSpace([k \in 1..(hi - lo + 1) |-> words[lo + k - 1].word])
    \o <<"...">>

\* the window of c words before word lo and c words after word hi
Window(words, lo, hi, c) ==
    WordsBetween(words, Max(1, lo - c), Min(Len(words), hi + c))

\* C34: the snippet of every match of every type is '...', the words from
\* c before the first matched word through c after the last matched word
\* joined by single spaces, '...', where c is the searcher's context_words
\* and the matched words are the word of an exact match, the tokens of a
\* phrase or the two words of a proximity pair
C34_SnippetIsContextWindow ==
    last.op \in {"search_exact", "search_proximity"} =>
        \A a \in {last.arg[1]} :
            \A n \in 1..Len(last.ret[1]) :
                \E m \in {last.ret[1][n]} :
                    \E i \in 1..Len(a.words) :
                        /\ a.words[i].start = m.timestamp_seconds
                        /\ CASE m.match_type = "exact" ->
                                  m.snippet = Window(a.words, i, i, a.context_words)
                             [] m.match_type = "phrase" ->
                                  m.snippet
                                    = Window(a.words, i,
                                             i + Len(Split(m.keyword, 1, <<>>)) - 1,
                                             a.context_words)
                             [] m.match_type = "proximity" ->
                                  \E j \in 1..Len(a.words) :
                                      /\ Matches(a.words[j].word, a.keyword2)
                                      /\ 0 < Abs(i - j)
                                      /\ Abs(i - j) <= a.max_distance
                                      /\ m.snippet
                                           = Window(a.words, Min(i, j), Max(i, j),
                                                    a.context_words)

\* the words of segments lo to hi, in order
RECURSIVE WordsOfSegments(_, _, _)
WordsOfSegments(segments, lo, hi) ==
    IF lo > hi THEN <<>>
    ELSE SplitText(segments[lo].text) \o WordsOfSegments(segments, lo + 1, hi)

\* C35: the snippet is the words of a run of segments around the center,
\* cut to target_words; it begins with '...' exactly when a segment exists
\* before the earliest included one, and ends with '...' exactly when a
\* segment exists after the latest included one or the words were cut
C35_EllipsisWhereContentIsLeftOut ==
    last.op = "_build_snippet" =>
        \A a \in {last.arg[1]}, r \in {last.ret[1]} :
            \E lo \in 1..a.center_idx, hi \in a.center_idx..Len(a.segments) :
                \E words \in {WordsOfSegments(a.segments, lo, hi)} :
                    /\ r.words = SubSeq(words, 1, Min(Len(words), a.target_words))
                    /\ r.before <=> lo > 1
                    /\ r.after <=> (hi < Len(a.segments)
                                    \/ Len(words) > a.target_words)

\* a snippet that reached the first segment, so has no '...' in front, and
\* was cut, and one with '...' in front that reached the last segment uncut
C35_Witness ==
    /\ last.op = "_build_snippet"
    /\ last.arg[1].center_idx > 1
    /\ \/ ~last.ret[1].before /\ last.ret[1].after
          /\ Len(last.ret[1].words) = last.arg[1].target_words
       \/ last.ret[1].before /\ ~last.ret[1].after

\* the number of words of snippet.split(): '...' alone counts as a word
SnippetWordCount(r) ==
    IF r.words = <<>> THEN (IF r.before \/ r.after THEN 1 ELSE 0)
    ELSE Len(r.words)

\* C40: a snippet never has more than target_words words and always
\* contains the text of the center segment, at least its leading words up
\* to the target count
C40_SnippetKeepsCenter ==
    last.op = "_build_snippet" =>
        \A a \in {last.arg[1]}, r \in {last.ret[1]} :
            /\ SnippetWordCount(r) <= a.target_words
            /\ \E center \in {SplitText(a.segments[a.center_idx].text)} :
                  \E offset \in 0..Len(r.words) :
                      \A k \in 1..Min(Len(center), a.target_words) :
                          /\ offset + k <= Len(r.words)
                          /\ r.words[offset + k] = center[k]

\* C36: get_transcription_memory returns one and the same
\* TranscriptionMemory, and so one lock, to every caller, also when several
\* threads make the first call at once; at most one is ever constructed
C36_OneTranscriptionMemory ==
    last.op = "process" =>
        /\ Process.memories <= 1
        /\ \A t, u \in Threads :
              (/\ pc[t].op = "get_transcription_memory" /\ pc[t].at = "done"
               /\ pc[u].op = "get_transcription_memory" /\ pc[u].at = "done")
              => pc[t].ret = pc[u].ret

\* one ModelCache is constructed and returned to every caller; a key is
\* loaded once and every get() of it returns that model
OneModelCache ==
    /\ Process.caches <= 1
    /\ \A t, u \in Threads :
          (/\ pc[t].op = "ModelCache" /\ pc[t].at = "done"
           /\ pc[u].op = "ModelCache" /\ pc[u].at = "done")
          => pc[t].ret = pc[u].ret
    /\ \A k \in ModelKeys : Process.loads[k] <= 1
    /\ \A t \in Threads :
          (pc[t].op = "get_model" /\ pc[t].at = "done")
          => \E clears \in 0..MaxCalls :
                pc[t].ret = Some(<<ModelKey(pc[t].model_size), clears, 1>>)

\* C37: ModelCache is a singleton: constructions at the same time yield
\* the same instance, get() calls of one key at the same time load the
\* model once and each returns that model, and after clear()
\* loaded_models() is empty
C37_ModelCacheSingleton ==
    [][last.op = "process" =>
        /\ OneModelCache'
        /\ \A t \in Threads :
              (pc[t].op = "clear_models" /\ pc[t].at = "in" /\ pc'[t].at = "done")
              => loaded_models' = {}]_vars

\* the tokens of a keyword as search_exact() splits it
TokensOf(keyword) == Split(Lower(CharsOf(keyword)), 1, <<>>)

\* the matches of a type that a result reports at the start of word i
MatchesAt(ret, words, i, match_type) ==
    {n \in 1..Len(ret) : /\ ret[n].match_type = match_type
                         /\ ret[n].timestamp_seconds = words[i].start}

\* C16: for a keyword of one token, search_exact emits exactly one exact
\* match at the start of a word if the normalized keyword is a substring of
\* the normalized word, and none otherwise
C16_ExactIffNormalizedSubstring ==
    (last.op = "search_exact" /\ Len(last.arg[1].keywords) = 1) =>
        \A a \in {last.arg[1]} :
            Len(TokensOf(a.keywords[1])) = 1 =>
                \A i \in 1..Len(a.words) :
                    Cardinality(MatchesAt(last.ret[1], a.words, i, "exact"))
                      = IF Matches(a.words[i].word, a.keywords[1])
                        THEN 1 ELSE 0

\* C17: for a keyword of n >= 2 tokens, search_exact emits a phrase match at
\* word i exactly when the n words from i exist and each matches its token;
\* a keyword without tokens yields no phrase match
C17_PhraseIffConsecutiveTokens ==
    (last.op = "search_exact" /\ Len(last.arg[1].keywords) = 1) =>
        \A a \in {last.arg[1]} :
            \A tokens \in {TokensOf(a.keywords[1])} :
                /\ Len(tokens) >= 2 =>
                      \A i \in 1..Len(a.words) :
                          (MatchesAt(last.ret[1], a.words, i, "phrase") # {})
                          <=> /\ i - 1 + Len(tokens) <= Len(a.words)
                              /\ \A t \in 1..Len(tokens) :
                                    Contains(
                                        clean_word(CharsOf(a.words[i + t - 1].word)),
                                        clean_word(tokens[t]))
                /\ Len(tokens) = 0 =>
                      \A n \in 1..Len(last.ret[1]) :
                          last.ret[1][n].match_type # "phrase"

\* how often a match occurs in a list
Count(matches, m) == Cardinality({n \in 1..Len(matches) : matches[n] = m})

\* the matches search_exact and search_proximity produce for the arguments
\* of the last search
Produced ==
    search_exact(last.arg[1].words, KeywordChars(last.arg[1].keywords))
    \o Flatten([n \in 1..Len(last.arg[1].proximity_pairs) |->
                  search_proximity(last.arg[1].words,
                                   last.arg[1].proximity_pairs[n][1],
                                   last.arg[1].proximity_pairs[n][2],
                                   last.arg[1].proximity_pairs[n][3])])

\* C18: search and find_keyword_matches return the exact, phrase and
\* proximity matches in one list ordered by non-decreasing
\* timestamp_seconds, each match as often as search_exact and
\* search_proximity produced it
C18_MergedSortedNothingLost ==
    last.op \in {"search", "find_keyword_matches"} =>
        \A produced \in {Produced} :
            /\ \A n \in 1..(Len(last.ret[1]) - 1) :
                  last.ret[1][n].timestamp_seconds
                    <= last.ret[1][n + 1].timestamp_seconds
            /\ Len(last.ret[1]) = Len(produced)
            /\ \A n \in 1..Len(produced) :
                  Count(last.ret[1], produced[n]) = Count(produced, produced[n])

\* a search has merged exact, phrase and proximity matches that were not
\* produced in the order of their times, two of them at the same time
C18_Witness ==
    /\ last.op = "search"
    /\ \E n \in 1..Len(last.ret[1]) : last.ret[1][n].match_type = "exact"
    /\ \E n \in 1..Len(last.ret[1]) : last.ret[1][n].match_type = "proximity"
    /\ \E n \in 1..(Len(last.ret[1]) - 1) :
          last.ret[1][n].timestamp_seconds = last.ret[1][n + 1].timestamp_seconds
    /\ last.ret[1] # Produced

\* ------------------------------------------------------------------------
\* Properties of the entry points
\* ------------------------------------------------------------------------

\* the entry points that take an audio path
AudioEntryPoints ==
    {"transcribe_audio", "transcribe_audio_streaming", "search_audio",
     "search_audio_full", "search_audio_proximity", "deep_search",
     "detect_chapters", "identify_speakers"}

\* C11: a call of an entry point that takes an audio path, made while no
\* file is at the path, fails with the not-found error before any hash,
\* store lookup, store write or model run, and leaves the store as it was
C11_MissingFileFailsFirst ==
    [][ (last'.op \in AudioEntryPoints /\ last'.path \notin exists) =>
            /\ last'.raised
            /\ last'.error = "not found"
            /\ last'.accessed = {}
            /\ last'.invoked = {}
            /\ UNCHANGED <<transcriptions, embeddings, diarization, notes>> ]_vars

\* ------------------------------------------------------------------------
\* Properties of the requests
\* ------------------------------------------------------------------------

\* C12: a keyword search with an empty keyword list and a semantic ranking
\* with an empty query fail with the invalid-input error; they do not
\* return an empty result
C12_EmptyRequestRejected ==
    /\ (last.op \in {"search", "find_keyword_matches"}
        /\ last.arg[1].keywords = <<>>)
       => (last.raised /\ last.error = "invalid input")
    /\ (last.op \in {"deep_search", "search_memory"} /\ last.arg[1].query = "")
       => (last.raised /\ last.error = "invalid input")

\* the similarity of a segment's own text to the query
OwnSimilarity(query, segment) ==
    Similarity(EmbedText(query), EmbedText(Strip(segment.text)))

\* similarities a and b are equal
SameSimilarity(a, b) == AtLeast(a, b) /\ AtLeast(b, a)

\* C19: the results of deep_search and of the cross-file semantic search are
\* in the order of non-increasing similarity, the similarity of a result is
\* that of its segment, and no candidate segment that was not returned is
\* more similar to the query than a returned one
C19_TrueTopK ==
    /\ (last.op = "deep_search" /\ last.ret # None /\ last.parts.t # None) =>
          \A res \in {last.ret[1].results}, segs \in {last.parts.t[1].segments} :
              /\ \A n \in 1..(Len(res) - 1) :
                    AtLeast(res[n].similarity, res[n + 1].similarity)
              /\ \A n \in 1..Len(res) :
                    /\ SameSimilarity(res[n].similarity,
                           OwnSimilarity(last.arg[1].query, segs[res[n].index]))
                    /\ \A j \in 1..Len(segs) :
                          (\A m \in 1..Len(res) : res[m].index # j) =>
                              AtLeast(res[n].similarity,
                                      OwnSimilarity(last.arg[1].query, segs[j]))
    /\ (last.op = "search_memory" /\ last.ret # None) =>
          \A res \in {last.ret[1].results}, all \in {last.ret[1].candidates} :
              /\ \A n \in 1..(Len(res) - 1) :
                    AtLeast(res[n].similarity, res[n + 1].similarity)
              /\ \A n \in 1..Len(res) :
                    \A j \in 1..Len(all) :
                        /\ (all[j].audio_hash = res[n].audio_hash
                            /\ all[j].index = res[n].index) =>
                               SameSimilarity(res[n].similarity,
                                   OwnSimilarity(last.arg[1].query, all[j].segment))
                        /\ (\A m \in 1..Len(res) :
                               ~(all[j].audio_hash = res[m].audio_hash
                                 /\ all[j].index = res[m].index)) =>
                               AtLeast(res[n].similarity,
                                   OwnSimilarity(last.arg[1].query, all[j].segment))

\* C20: with n >= 1 candidate segments, deep_search and the cross-file
\* semantic search do not fail and return exactly min(top_k, n) results
C20_ExactlyMinTopK ==
    /\ (last.op = "deep_search" /\ last.parts.t # None) =>
          (Len(last.parts.t[1].segments) >= 1 =>
              /\ ~last.raised
              /\ last.ret # None
              /\ Len(last.ret[1].results)
                   = Min(last.arg[1].top_k, Len(last.parts.t[1].segments)))
    /\ (last.op = "search_memory" /\ Strip(last.arg[1].query) # "") =>
          /\ ~last.raised
          /\ last.ret # None
          /\ Len(last.ret[1].results)
               = Min(last.arg[1].top_k, Len(last.ret[1].candidates))

\* ------------------------------------------------------------------------
\* Properties of semantic ranking
\* ------------------------------------------------------------------------

\* similarity s lies in [0, 1]
InUnitInterval(s) == s.num >= 0 /\ s.num <= s.den

\* C21: every similarity reported in a semantic result lies in [0, 1]
C21_SimilarityInUnitInterval ==
    (last.op \in {"deep_search", "search_memory"} /\ last.ret # None) =>
        \A n \in 1..Len(last.ret[1].results) :
            InUnitInterval(last.ret[1].results[n].similarity)

\* the stored transcription and the stored vector a result row points back to
PointsBack(res, query) ==
    \E r \in transcriptions :
        \E segs \in {json_loads(r.segments).list},
           e \in {SelectEmbeddings(embeddings,
                      _embeddings_cache_key(r.audio_hash, EMBEDDING_MODEL))} :
            /\ res.title = r.title
            /\ res.file_path = r.file_path
            /\ res.index <= Len(segs)
            /\ res.start = segs[res.index].start
            /\ res.end = segs[res.index].end
            /\ res.text = _build_snippet(segs, res.index, DefaultTargetWords)
            /\ e # None
            /\ res.index <= Len(e[1].embeddings)
            /\ SameSimilarity(res.similarity,
                   Similarity(EmbedText(query), e[1].embeddings[res.index]))

\* C23: the cross-file semantic search ranks the segments of all files in
\* one order, top_k counting over the whole store, and the title, the
\* file_path, the start, the end and the snippet of a result are those of
\* the file and segment whose vector gave its similarity (the count and the
\* cut are those of the ranking when no dedup window is given)
C23_GlobalRankingPointsBack ==
    (last.op = "search_memory" /\ last.ret # None) =>
        \A res \in {last.ret[1].results}, all \in {last.ret[1].candidates} :
            /\ last.arg[1].dedup_seconds = 0 =>
                  Len(res) = Min(last.arg[1].top_k, last.ret[1].total_segments)
            /\ \A n \in 1..(Len(res) - 1) :
                  AtLeast(res[n].similarity, res[n + 1].similarity)
            /\ \A n \in 1..Len(res) :
                  /\ PointsBack(res[n], last.arg[1].query)
                  /\ \A j \in 1..Len(all) :
                        (/\ last.arg[1].dedup_seconds = 0
                         /\ \A m \in 1..Len(res) :
                            ~(all[j].audio_hash = res[m].audio_hash
                              /\ all[j].index = res[m].index))
                        => AtLeast(res[n].similarity,
                                   Similarity(EmbedText(last.arg[1].query),
                                              all[j].vector))

\* two files are searched and one result is asked for: it is the best
\* segment of the store, a segment of the file that came second
C23_Witness ==
    /\ last.op = "search_memory" /\ last.ret # None
    /\ last.arg[1].top_k = 1
    /\ last.arg[1].dedup_seconds = 0
    /\ last.ret[1].files_searched = 2
    /\ Len(last.ret[1].results) = 1
    /\ Len(last.ret[1].candidates) = 5
    /\ last.ret[1].results[1].audio_hash = last.ret[1].candidates[5].audio_hash
    /\ last.ret[1].results[1].file_path # last.ret[1].candidates[1].file_path

\* the candidates a semantic search ranked: for each its source, its segment
\* start, its place among the source's segments and its similarity
CandidatesOf(l) ==
    IF l.op = "search_memory"
    THEN [j \in 1..Len(l.ret[1].candidates) |->
            [source |-> l.ret[1].candidates[j].audio_hash,
             index  |-> l.ret[1].candidates[j].index,
             start  |-> l.ret[1].candidates[j].segment.start,
             similarity |-> Similarity(EmbedText(l.arg[1].query),
                                       l.ret[1].candidates[j].vector)]]
    ELSE Only({ [j \in 1..Min(Len(u.segments), Len(u.vectors[1])) |->
                   [source |-> l.content, index |-> j,
                    start |-> u.segments[j].start,
                    similarity |-> Similarity(EmbedText(l.arg[1].query),
                                              u.vectors[1][j])]]
                : u \in l.used })

\* the results of a semantic search, each with its source
ReturnedBy(l) ==
    [n \in 1..Len(l.ret[1].results) |->
        [source |-> IF l.op = "search_memory"
                    THEN l.ret[1].results[n].audio_hash ELSE l.content,
         index  |-> l.ret[1].results[n].index,
         start  |-> l.ret[1].results[n].start,
         similarity |-> l.ret[1].results[n].similarity]]

\* candidate c is among the results res
Returned(c, res) ==
    \E n \in 1..Len(res) : res[n].source = c.source /\ res[n].index = c.index

\* a semantic search that returned results over at least one candidate
Ranked(l) ==
    /\ l.op \in {"deep_search", "search_memory"}
    /\ l.ret # None
    /\ (l.op = "deep_search" => l.used # {})

\* the results are the ranking cut to top_k with nothing taken out
Undeduplicated(l) ==
    \A res \in {ReturnedBy(l)}, all \in {CandidatesOf(l)} :
        /\ Len(res) = Min(l.arg[1].top_k, Len(all))
        /\ \A n \in 1..Len(res), j \in 1..Len(all) :
              ~Returned(all[j], res) => AtLeast(res[n].similarity, all[j].similarity)

\* two calls in a row that rank the same corpus for the same query and
\* top_k, np.argsort giving the same order both times
SameRequestTwice ==
    /\ Ranked(last) /\ Ranked(last')
    /\ last'.op = last.op
    /\ last'.path = last.path /\ last'.model_size = last.model_size
    /\ last'.arg[1].query = last.arg[1].query
    /\ last'.arg[1].top_k = last.arg[1].top_k
    /\ CandidatesOf(last') = CandidatesOf(last)
    /\ last'.ranked = last.ranked

\* C22: for the same query, corpus and top_k a semantic search with dedup
\* window w2 returns no more results than with window w1 <= w2, and with
\* dedup_seconds = 0 it returns the ranking with nothing deduplicated
C22_DedupMonotone ==
    [][ /\ (SameRequestTwice
            /\ last.arg[1].dedup_seconds <= last'.arg[1].dedup_seconds)
           => Len(last'.ret[1].results) <= Len(last.ret[1].results)
        /\ (SameRequestTwice
            /\ last'.arg[1].dedup_seconds <= last.arg[1].dedup_seconds)
           => Len(last.ret[1].results) <= Len(last'.ret[1].results)
        /\ (Ranked(last') /\ last'.arg[1].dedup_seconds = 0)
           => Undeduplicated(last') ]_vars

\* a search of a stored transcription with a window that collapsed one of
\* its three segments
C22_Witness ==
    /\ Ranked(last) /\ last.op = "deep_search"
    /\ last.arg[1].dedup_seconds = 2
    /\ last.arg[1].top_k = DefaultTopK
    /\ Len(CandidatesOf(last)) = 3
    /\ Len(last.ret[1].results) = 2
    /\ last.parts.t[1].cached

\* C30: with a dedup window w > 0 no two results of one source start within
\* w seconds of each other, a candidate that was collapsed gave way to a
\* result of its source within w seconds that is at least as similar, and
\* no candidate is taken out without a result of its own source within w
\* seconds, whatever starts at the same time in another source
C30_DedupWithinSource ==
    (Ranked(last) /\ last.arg[1].dedup_seconds > 0) =>
        \A res \in {ReturnedBy(last)}, all \in {CandidatesOf(last)},
           w \in {last.arg[1].dedup_seconds} :
            /\ \A n, m \in 1..Len(res) :
                  (n # m /\ res[n].source = res[m].source)
                  => Abs(res[n].start - res[m].start) > w
            /\ \A j \in 1..Len(all) :
                  (/\ ~Returned(all[j], res)
                   /\ \/ Len(res) < last.arg[1].top_k
                      \/ \E n \in 1..Len(res) :
                            /\ res[n].source = all[j].source
                            /\ Abs(res[n].start - all[j].start) <= w)
                  => \E n \in 1..Len(res) :
                        /\ res[n].source = all[j].source
                        /\ Abs(res[n].start - all[j].start) <= w
                        /\ AtLeast(res[n].similarity, all[j].similarity)

\* a search of two files with a window: a segment gave way to a neighbour
\* in its file, and two segments of different files that start at the same
\* time are both returned
C30_Witness ==
    /\ Ranked(last) /\ last.op = "search_memory"
    /\ last.arg[1].dedup_seconds = 2
    /\ \E j \in 1..Len(CandidatesOf(last)) :
          ~Returned(CandidatesOf(last)[j], ReturnedBy(last))
    /\ Len(last.ret[1].results) < last.arg[1].top_k
    /\ \E n, m \in 1..Len(last.ret[1].results) :
          /\ last.ret[1].results[n].audio_hash # last.ret[1].results[m].audio_hash
          /\ last.ret[1].results[n].start = last.ret[1].results[m].start

\* ------------------------------------------------------------------------
\* The schema of the store
\* ------------------------------------------------------------------------

\* a database file: its tables by name, each with its columns in order and
\* its rows (column -> value), and the names of its indexes
NoDatabase == [tables |-> <<>>, indexes |-> {}]

\* the columns of CREATE TABLE transcriptions
TranscriptionColumns ==
    <<"cache_key", "audio_hash", "model_size", "language", "duration", "text",
      "words", "segments", "created_at", "file_path">>

\* the columns of CREATE TABLE embeddings
EmbeddingColumns ==
    <<"cache_key", "audio_hash", "embedding_model", "segment_count",
      "embedding_dim", "embeddings", "created_at">>

\* the columns of CREATE TABLE diarization
DiarizationColumns ==
    <<"cache_key", "audio_hash", "num_speakers", "speakers", "turns",
      "created_at">>

\* the columns the migration adds
MigratedColumns == <<"title", "md_path">>

Range(seq) == {seq[i] : i \in 1..Len(seq)}

\* CREATE TABLE IF NOT EXISTS name (columns)
CreateTableIfNotExists(db, name, columns) ==
    IF name \in DOMAIN db.tables THEN db
    ELSE [db EXCEPT !.tables =
             [t \in DOMAIN db.tables \cup {name} |->
                 IF t = name THEN [columns |-> columns, rows |-> {}]
                 ELSE db.tables[t]]]

\* CREATE INDEX IF NOT EXISTS name
CreateIndexIfNotExists(db, name) == [db EXCEPT !.indexes = @ \cup {name}]

\* the column added to a table made anew: no row is carried over
AddColumnToNewTable(db, column) ==
    IF column \in Range(db.tables["transcriptions"].columns) THEN db
    ELSE [db EXCEPT !.tables["transcriptions"] =
             [columns |-> Append(@.columns, column), rows |-> {}]]

\* ALTER TABLE transcriptions ADD COLUMN column TEXT DEFAULT '', with the
\* OperationalError of a column that is there passed over
AddColumn(db, column) ==
    IF column \in Range(db.tables["transcriptions"].columns) THEN db
    ELSE [db EXCEPT !.tables["transcriptions"] =
             [columns |-> Append(@.columns, column),
              rows    |-> {[c \in DOMAIN row \cup {column} |->
                               IF c = column THEN "" ELSE row[c]]
                           : row \in @.rows}]]

\* TranscriptionMemory._init_db() on the database file db
_init_db(db) ==
    Only({ Only({ Only({ Only({ Only({
        CreateIndexIfNotExists(
            CreateTableIfNotExists(
                CreateIndexIfNotExists(db5, "idx_embeddings_hash"),
                "diarization", DiarizationColumns),
            "idx_diarization_hash")
        : db5 \in {CreateTableIfNotExists(
                      CreateIndexIfNotExists(db4, "idx_title"),
                      "embeddings", EmbeddingColumns)} })
        : db4 \in {AddColumn(db3, "md_path")} })
        : db3 \in {AddColumn(db2, "title")} })
        : db2 \in {CreateIndexIfNotExists(db1, "idx_audio_hash")} })
        : db1 \in {CreateTableIfNotExists(db, "transcriptions",
                                          TranscriptionColumns)} })

\* the rows an earlier version may have stored: one per cache key
StoredKeys == {"hash1:tiny", "hash2:tiny"}

\* the row of a cache key in a table with the given columns
RowOf(cache_key, columns, text) ==
    [c \in Range(columns) |->
        IF c = "cache_key" THEN cache_key
        ELSE IF c = "audio_hash" THEN SubSeq(cache_key, 1, 5)
        ELSE IF c = "model_size" THEN "tiny"
        ELSE IF c = "language" THEN "en"
        ELSE IF c = "text" THEN text
        ELSE IF c = "file_path" THEN "/old/path.mp3"
        ELSE IF c = "title" THEN "path"
        ELSE IF c = "md_path" THEN "/memory/transcriptions/path.md"
        ELSE "[]"]

\* the column lists a transcriptions table may have had
ColumnVersions ==
    {TranscriptionColumns, Append(TranscriptionColumns, "title"),
     Append(TranscriptionColumns, "md_path"),
     TranscriptionColumns \o MigratedColumns}

\* a later table that is missing, empty, or holds a row
TableVersions(columns) ==
    {None, Some([columns |-> columns, rows |-> {}]),
     Some([columns |-> columns,
           rows |-> {RowOf("hash1:tiny", columns, "[]")}])}

\* the database files found on opening: none, and those of earlier versions
Databases ==
    {NoDatabase} \cup
    { [tables |-> [t \in {"transcriptions"}
                        \cup (IF e = None THEN {} ELSE {"embeddings"})
                        \cup (IF d = None THEN {} ELSE {"diarization"}) |->
                     IF t = "transcriptions"
                     THEN [columns |-> columns,
                           rows |-> {RowOf(k, columns, "old text") : k \in keys}]
                     ELSE IF t = "embeddings" THEN e[1] ELSE d[1]],
       indexes |-> {"idx_audio_hash"}]
      : columns \in ColumnVersions, keys \in SUBSET StoredKeys,
        e \in TableVersions(EmbeddingColumns),
        d \in TableVersions(DiarizationColumns) }

\* the database file of the step before
Database == last.ret[1]

\* TranscriptionMemory(memory_dir) on a directory with the database file
OpenStore ==
    /\ Tick
    /\ last' = [NoCall EXCEPT !.op = "_init_db", !.arg = Some(Database),
                              !.ret = Some(_init_db(Database))]
    /\ UNCHANGED <<files, exists, stream, transcriptions, embeddings, diarization,
                   notes, puts, filled>>

\* INSERT OR REPLACE INTO transcriptions of set(), on a store that has been
\* opened
InsertRow(cache_key, text) ==
    /\ Tick
    /\ last.op # "database"
    /\ last' = [NoCall EXCEPT
                   !.op = "insert", !.arg = Some(Database),
                   !.ret = Some([Database EXCEPT !.tables["transcriptions"].rows =
                                    {row \in @ : row["cache_key"] # cache_key}
                                    \cup {RowOf(cache_key,
                                                TranscriptionColumns \o MigratedColumns,
                                                text)}])]
    /\ UNCHANGED <<files, exists, stream, transcriptions, embeddings, diarization,
                   notes, puts, filled>>

\* a memory directory as found
MigrateInit ==
    /\ files = [p \in Paths |-> <<1>>]
    /\ exists = Paths
    /\ stream = NoStream
    /\ transcriptions = {}
    /\ embeddings = {}
    /\ diarization = {}
    /\ notes = [m \in MdPaths |-> None]
    /\ now = 0
    /\ \E db \in Databases : last = [NoCall EXCEPT !.op = "database", !.ret = Some(db)]
    /\ puts = [k \in Keys |-> None]
    /\ filled = NothingFilled
    /\ pc = [t \in Threads |-> Idle]
    /\ lock = 0
    /\ calls = 0

MigrateNext ==
    \/ OpenStore
    \/ \E cache_key \in StoredKeys, text \in {"old text", "new text"} :
          InsertRow(cache_key, text)

MigrateSpec == MigrateInit /\ [][MigrateNext]_vars

\* ------------------------------------------------------------------------
\* The MCP server
\* ------------------------------------------------------------------------

\* the JSON-RPC error codes of the server
ParseError == 0 - 32700
MethodNotFound == 0 - 32601
InvalidParams == 0 - 32602
InternalError == 0 - 32603

\* send_response() of a result: the line written to stdout
Response(id, result) == [id |-> id, result |-> Some(result), error |-> None]

\* send_error(id, code, message): the line written to stdout
Error(id, code) == [id |-> id, result |-> None, error |-> Some(code)]

\* what handling a line writes and leaves in the store when it calls no tool
NoEffect(out) ==
    [out |-> out, transcriptions |-> transcriptions, embeddings |-> embeddings,
     diarization |-> diarization, notes |-> notes, puts |-> puts,
     filled |-> filled]

\* handle_tools_call(id, params)
handle_tools_call(id, params) ==
    IF params.name = "transcribe_audio"
    THEN IF params.audio_path = None
         THEN NoEffect(<<Error(id, InvalidParams)>>)
         ELSE Only({ [out |-> IF r.raised
                              THEN <<Error(id, IF r.error = "not found"
                                               THEN InvalidParams
                                               ELSE InternalError)>>
                              ELSE <<Response(id, "content")>>,
                      transcriptions |-> r.transcriptions,
                      embeddings |-> embeddings, diarization |-> diarization,
                      notes |-> r.notes,
                      puts |-> IF params.audio_path[1] \in exists
                               THEN PutsAfter(params.audio_path[1], <<"t">>,
                                              ResultOf(WhisperFor(
                                                  files[params.audio_path[1]], <<"t">>)),
                                              r.committed)
                               ELSE puts,
                      filled |-> IF params.audio_path[1] \in exists
                                 THEN FilledAfter(params.audio_path[1], <<"t">>, None,
                                                  r.invoked, r.committed, FALSE, FALSE)
                                 ELSE filled]
                     : r \in {transcribe_audio(params.audio_path[1], <<"t">>,
                                  WhisperFor(files[params.audio_path[1]], <<"t">>),
                                  NoFaults)} })
    ELSE IF params.name = "clear_memory"
    THEN [out |-> <<Response(id, "content")>>,
          transcriptions |-> {}, embeddings |-> {}, diarization |-> {},
          notes |-> clear({}).notes, puts |-> [k \in Keys |-> None],
          filled |-> NothingFilled]
    ELSE NoEffect(<<Error(id, InvalidParams)>>)

\* handle_request(request)
handle_request(request) ==
    IF request.method = Some("initialize")
    THEN NoEffect(<<Response(request.id, "serverInfo")>>)
    ELSE IF request.method = Some("notifications/initialized")
    THEN NoEffect(<<>>)
    ELSE IF request.method = Some("tools/list")
    THEN NoEffect(<<Response(request.id, "tools")>>)
    ELSE IF request.method = Some("tools/call")
    THEN handle_tools_call(request.id, request.params)
    ELSE IF request.id # None
    THEN NoEffect(<<Error(request.id, MethodNotFound)>>)
    ELSE NoEffect(<<>>)

NoParams == [name |-> "", audio_path |-> None]

\* the requests sent: with and without an id, every routed method, one that
\* is not routed and none; the tools called with and without their file
Requests ==
    { [id |-> id, method |-> method, params |-> NoParams]
      : id \in {None, Some(1)},
        method \in {None, Some("initialize"), Some("notifications/initialized"),
                    Some("tools/list"), Some("nonexistent/method")} }
    \cup
    { [id |-> id, method |-> Some("tools/call"),
       params |-> [name |-> name, audio_path |-> audio_path]]
      : id \in {None, Some(1)},
        name \in {"transcribe_audio", "clear_memory", "nonexistent_tool"},
        audio_path \in {None, Some(PathXA), Some(PathYA)} }

\* the lines on stdin: blank, not JSON, JSON that is no object, a request
Lines ==
    { [kind |-> kind, request |-> [id |-> None, method |-> None, params |-> NoParams]]
      : kind \in {"blank", "invalid", "not_object"} }
    \cup { [kind |-> "request", request |-> request] : request \in Requests }

\* the body of the loop of main() for one line
main(line) ==
    IF line.kind = "blank" THEN NoEffect(<<>>)
    ELSE IF line.kind = "invalid" THEN NoEffect(<<Error(None, ParseError)>>)
    ELSE IF line.kind = "not_object" THEN NoEffect(<<Error(None, InternalError)>>)
    ELSE handle_request(line.request)

\* the server reads a line from stdin
Main(line) ==
    /\ Tick
    /\ \E r \in {main(line)} :
        /\ transcriptions' = r.transcriptions
        /\ embeddings' = r.embeddings
        /\ diarization' = r.diarization
        /\ notes' = r.notes
        /\ puts' = r.puts
        /\ filled' = r.filled
        /\ last' = [NoCall EXCEPT !.op = "main", !.arg = Some(line),
                                  !.ret = Some(r.out)]
    /\ UNCHANGED <<files, exists, stream>>

\* two recordings on disk and a path with no file
ServerInit ==
    /\ files = [p \in Paths |-> IF p = PathXB THEN <<2>> ELSE <<1>>]
    /\ exists = Paths \ {PathYA}
    /\ stream = NoStream
    /\ transcriptions = {}
    /\ embeddings = {}
    /\ diarization = {}
    /\ notes = [m \in MdPaths |-> None]
    /\ now = 0
    /\ last = NoCall
    /\ puts = [k \in Keys |-> None]
    /\ filled = NothingFilled
    /\ pc = [t \in Threads |-> Idle]
    /\ lock = 0
    /\ calls = 0

ServerNext ==
    \/ \E line \in Lines : Main(line)
    \/ \E p \in {PathXA, PathXB}, query \in {"hi"} :
          DeepSearch(p, query, <<"t">>, DefaultTopK, 0, NoFaults)

ServerSpec == ServerInit /\ [][ServerNext]_vars

\* ------------------------------------------------------------------------
\* Properties of the order of equal similarities
\* ------------------------------------------------------------------------

\* where candidate c stands among the candidates all
PositionOf(c, all) ==
    CHOOSE j \in 1..Len(all) : all[j].source = c.source /\ all[j].index = c.index

SameSimilarityAs(a, b) == AtLeast(a, b) /\ AtLeast(b, a)

\* C31: of two candidate segments with equal similarity to the query the one
\* with the smaller original index is ranked first: it stands earlier in
\* the results, and it is not left out for the other
C31_TiesByOriginalIndex ==
    Ranked(last)
    => \A res \in {ReturnedBy(last)}, all \in {CandidatesOf(last)} :
          /\ \A n, m \in 1..Len(res) :
                (n < m /\ SameSimilarityAs(res[n].similarity, res[m].similarity))
                => PositionOf(res[n], all) < PositionOf(res[m], all)
          /\ last.arg[1].dedup_seconds = 0
             => \A n \in 1..Len(res), j \in 1..Len(all) :
                   (~Returned(all[j], res)
                    /\ SameSimilarityAs(res[n].similarity, all[j].similarity))
                   => PositionOf(res[n], all) < j

\* ------------------------------------------------------------------------
\* Properties of the notes
\* ------------------------------------------------------------------------

\* the note _write_markdown() derives from the transcription of a row
NoteOf(row) ==
    MarkdownOf(row.title,
               [language |-> row.language, duration |-> row.duration,
                text |-> row.text, segments |-> json_loads(row.segments).list],
               row.file_path)

\* C29: after any sequence of put_transcription and clear, each stored row
\* has its own note file, whose content is derived from the transcription
\* of that row, and a note file exists only while a row that owns it exists
C29_NotesInLockstep ==
    /\ \A row \in transcriptions :
          /\ row.md_path # <<>>
          /\ notes[row.md_path] = Some(NoteOf(row))
          /\ \A other \in transcriptions :
                other.md_path = row.md_path => other = row
    /\ \A m \in MdPaths :
          notes[m] # None => \E row \in transcriptions : row.md_path = m

\* ------------------------------------------------------------------------
\* Properties of the MCP server
\* ------------------------------------------------------------------------

\* the methods handle_request() routes
RoutedMethods ==
    {Some("initialize"), Some("notifications/initialized"), Some("tools/list"),
     Some("tools/call")}

\* C28: for every JSON-RPC request the server handles it writes exactly one
\* response line if the request has an id and nothing if it has none,
\* whatever the method; a method that is not known, sent with an id, is
\* answered with error code -32601
C28_OneResponsePerRequestWithId ==
    (last.op = "main" /\ last.arg[1].kind = "request")
    => LET request == last.arg[1].request
           out == last.ret[1]
       IN  /\ request.id # None => Len(out) = 1 /\ out[1].id = request.id
           /\ request.id = None => out = <<>>
           /\ (request.id # None /\ request.method \notin RoutedMethods)
              => out[1].error = Some(MethodNotFound)

\* ------------------------------------------------------------------------
\* Properties of the schema migration
\* ------------------------------------------------------------------------

\* the row with only the columns it had before
Restricted(row, columns) == [c \in Range(columns) |-> row[c]]

\* the database has every table, column and index of the current schema
CurrentSchema(db) ==
    /\ DOMAIN db.tables = {"transcriptions", "embeddings", "diarization"}
    /\ Range(db.tables["transcriptions"].columns)
          = Range(TranscriptionColumns \o MigratedColumns)
    /\ db.tables["embeddings"].columns = EmbeddingColumns
    /\ db.tables["diarization"].columns = DiarizationColumns
    /\ db.indexes = {"idx_audio_hash", "idx_title", "idx_embeddings_hash",
                     "idx_diarization_hash"}

\* C27: opening a store made with an older schema adds the missing columns
\* and tables and keeps every row that was there with all the values it
\* had; opening a store that is current changes no row
C27_MigrationKeepsRows ==
    (last.op = "_init_db")
    => LET before == last.arg[1]
           after  == last.ret[1]
       IN  /\ CurrentSchema(after)
           /\ \A t \in DOMAIN before.tables :
                 /\ Cardinality(after.tables[t].rows)
                      = Cardinality(before.tables[t].rows)
                 /\ \A row \in before.tables[t].rows :
                       \E kept \in after.tables[t].rows :
                           Restricted(kept, before.tables[t].columns) = row
                 /\ \A i \in 1..Len(before.tables[t].columns) :
                       after.tables[t].columns[i] = before.tables[t].columns[i]
           /\ \A row \in after.tables["transcriptions"].rows :
                 \A c \in Range(MigratedColumns) :
                     c \notin Range(before.tables["transcriptions"].columns)
                     => row[c] = ""
           /\ CurrentSchema(before) => after = before

\* a store with the first columns only, two rows and no later table has
\* been opened
C27_Witness ==
    /\ last.op = "_init_db"
    /\ DOMAIN last.arg[1].tables = {"transcriptions"}
    /\ last.arg[1].tables["transcriptions"].columns = TranscriptionColumns
    /\ Cardinality(last.arg[1].tables["transcriptions"].rows) = 2
    /\ Cardinality(last.ret[1].tables["transcriptions"].rows) = 2

\* ------------------------------------------------------------------------
\* Properties of chapter detection
\* ------------------------------------------------------------------------

\* the segments detect_chapters() worked on
ChapterSegments == last.parts.t[1].segments

\* the number of segments in the chapters before chapter i
RECURSIVE SegmentsBefore(_, _)
SegmentsBefore(chapters, i) ==
    IF i <= 1 THEN 0
    ELSE SegmentsBefore(chapters, i - 1) + chapters[i - 1].segment_count

\* the segments at which the chapters after the first start
StartsOf(chapters) == {SegmentsBefore(chapters, i) : i \in 2..Len(chapters)}

\* C24: for a transcription of n >= 1 segments and any sensitivity, the
\* chapters detect_chapters returns are numbered 1..k in chronological
\* order, each is a non-empty contiguous run of segments, the first starts
\* at segment 0, each next one right after the one before, the last ends at
\* segment n - 1, and the segment_count values sum to n
C24_ChaptersPartitionSegments ==
    (last.op = "detect_chapters" /\ last.ret # None /\ Len(ChapterSegments) >= 1)
    => LET chapters == last.ret[1].chapters
           k == Len(chapters)
       IN  /\ k >= 1
           /\ last.ret[1].total_chapters = k
           /\ \A i \in 1..k :
                 /\ chapters[i].chapter_number = i
                 /\ chapters[i].segment_count >= 1
                 /\ SegmentsBefore(chapters, i + 1) <= Len(ChapterSegments)
                 /\ chapters[i].start
                      = ChapterSegments[SegmentsBefore(chapters, i) + 1].start
                 /\ chapters[i].end
                      = ChapterSegments[SegmentsBefore(chapters, i + 1)].end
                 /\ chapters[i].text
                      = JoinSpace(TextsOf(SubSeq(ChapterSegments,
                                                 SegmentsBefore(chapters, i) + 1,
                                                 SegmentsBefore(chapters, i + 1))))
           /\ \A i \in 1..(k - 1) : chapters[i].start <= chapters[i + 1].start
           /\ SegmentsBefore(chapters, k + 1) = Len(ChapterSegments)

\* three segments come back as a chapter of two and a chapter of one
C24_Witness ==
    /\ last.op = "detect_chapters"
    /\ last.ret # None
    /\ Len(ChapterSegments) = 3
    /\ last.ret[1].total_chapters = 2
    /\ last.ret[1].chapters[1].segment_count = 2

\* the embeddings of the segments detect_chapters() worked on
OwnEmbeddings == Encode(TextsOf(ChapterSegments))

\* the segments i whose similarity to segment i + 1 is below the sensitivity
\* of the call
PairsBelowSensitivity ==
    {i \in 1..(Len(ChapterSegments) - 1) :
        LowSimilarity(OwnEmbeddings[i], OwnEmbeddings[i + 1],
                      last.arg[1].sensitivity.num, last.arg[1].sensitivity.den)}

\* C32: detect_chapters places a chapter boundary right after segment i
\* exactly when the similarity of segments i and i + 1 is strictly below
\* the sensitivity, so there are 1 + (number of such pairs) chapters, and a
\* pair whose similarity equals the sensitivity does not split
C32_BoundaryExactlyBelowSensitivity ==
    (last.op = "detect_chapters" /\ last.ret # None /\ Len(ChapterSegments) >= 2)
    => /\ StartsOf(last.ret[1].chapters) = PairsBelowSensitivity
       /\ last.ret[1].total_chapters = 1 + Cardinality(PairsBelowSensitivity)

\* sensitivity a is at most sensitivity b
AtMost(a, b) == a.num * b.den <= b.num * a.den

\* the step is a detect_chapters call on the same file, model size,
\* segments and embeddings as the detect_chapters call before it
SameChaptersTwice ==
    /\ last.op = "detect_chapters" /\ last'.op = "detect_chapters"
    /\ last.ret # None /\ last'.ret # None
    /\ last.path = last'.path /\ last.model_size = last'.model_size
    /\ last.parts.t[1].segments = last'.parts.t[1].segments
    /\ last.used = last'.used

C26_ShortTranscriptionOneChapter ==
    [][(last'.op = "detect_chapters" /\ last'.parts.t # None
        /\ Len(last'.parts.t[1].segments) < 2)
       => LET segments == last'.parts.t[1].segments
          IN  /\ last'.ret # None
              /\ last'.ret[1].total_chapters = 1
              /\ Len(last'.ret[1].chapters) = 1
              /\ last'.ret[1].chapters[1].chapter_number = 1
              /\ last'.ret[1].chapters[1].segment_count = Len(segments)
              /\ last'.ret[1].chapters[1].start
                   = (IF segments = <<>> THEN 0 ELSE segments[1].start)
              /\ last'.ret[1].chapters[1].end
                   = (IF segments = <<>> THEN 0 ELSE segments[1].end)
              /\ last'.ret[1].chapters[1].text
                   = (IF segments = <<>> THEN <<>> ELSE <<Strip(segments[1].text)>>)
              /\ last'.invoked \cap {"embed_segments", "embed_query"} = {}
              /\ last'.parts.e = None
              /\ embeddings' = embeddings]_vars

\* the recording with one utterance comes back as one chapter from 3 to 9
C26_Witness ==
    /\ last.op = "detect_chapters"
    /\ last.ret # None
    /\ Len(ChapterSegments) = 1
    /\ last.ret[1].chapters[1].start = 3
    /\ last.ret[1].chapters[1].end = 9
    /\ last.ret[1].chapters[1].segment_count = 1

\* ------------------------------------------------------------------------
\* Properties of use_cache and of the progress events
\* ------------------------------------------------------------------------

\* C38: a call with use_cache=False of transcribe_audio,
\* transcribe_audio_streaming, search_audio, search_audio_full,
\* search_audio_streaming or search_audio_proximity neither reads nor
\* writes the store and runs the transcription model exactly once; the
\* store after the call is the store before it
C38_UseCacheFalseLeavesStoreAlone ==
    [][(/\ last'.op \in UseCacheOps \cup {"transcribe_audio_streaming",
                                          "search_audio_streaming"}
        /\ last'.arg # None
        /\ ~last'.arg[1].use_cache
        /\ ~last'.raised)
       => /\ last'.accessed = {}
          /\ last'.invoked = {"whisper"}
          /\ ~last'.committed
          /\ transcriptions' = transcriptions
          /\ notes' = notes
          /\ embeddings' = embeddings
          /\ diarization' = diarization]_vars

\* the progress events of the last run of transcribe_audio_streaming
Events == last.arg[1].events

\* C39: transcribe_audio_streaming yields loading_model, transcribing, zero
\* or more segment events and complete when nothing is stored, and a single
\* complete event when the transcription is stored; complete comes exactly
\* once, last, with progress 1.0, and progress never decreases from one
\* event to the next
C39_ProgressEventsInOrder ==
    (last.op = "transcribe_audio_streaming" /\ ~last.raised) =>
        /\ IF last.ret[1].cached
           THEN Len(Events) = 1
           ELSE /\ Len(Events) >= 3
                /\ Events[1].status = "loading_model"
                /\ Events[2].status = "transcribing"
                /\ \A i \in 3..(Len(Events) - 1) : Events[i].status = "segment"
        /\ \A i \in 1..Len(Events) :
              Events[i].status = "complete" <=> i = Len(Events)
        /\ Events[Len(Events)].progress.num = Events[Len(Events)].progress.den
        /\ \A i \in 1..(Len(Events) - 1) :
              AtMost(Events[i].progress, Events[i + 1].progress)

====
